---- MODULE Spec2Model ----
(***************************************************************************)
(* Form components of the optical-retail back office (mazvaris/optiapp2).  *)
(* Each component is a small state machine: its fields are the state, its  *)
(* event handlers are the actions.  One component is mounted at a time     *)
(* (variable mounted); the fields of the other components keep their       *)
(* construction values.                                                    *)
(*                                                                         *)
(* Representation                                                          *)
(*   - a JavaScript Date is its count of days since 1970-01-01 (the time   *)
(*     of day is constant in every computation modelled here);             *)
(*   - the value of an <input type="date"> is a record [y, m, d], the      *)
(*     empty string being EmptyDate;                                       *)
(*   - a duration in days is held in half-days (1 day = 2), so that the    *)
(*     0.5 of the source is exact;                                         *)
(*   - free text is a sequence of characters over Chars.                   *)
(***************************************************************************)
EXTENDS Integers, Sequences, FiniteSets, TLC

VARIABLES
    mounted,
    \* LeaveRequestInitiation (src/Staff_Availability.tsx:895-928)
    step, leaveType, startDate, endDate, halfStart, halfEnd, error,
    businessDays, totalDays,
    notes, files, agree, submitting,
    \* the props of the wizard, the payload of the submit() that is awaiting
    \* onSubmit or the timer, and the message alert() showed in the last
    \* handler
    leaveProps, pendingPayload, leaveAlert,
    \* the invocations of submit() that are at their await
    inFlight,
    \* EyePrescriptionFollowUpPreview (src/Staff_Availability.tsx:122-156)
    followUp, followUpIntervalValue, followUpIntervalUnit, showProvisional,
    provisionalFollowUpDate, today, alertData,
    \* history of the follow-up form: the stored date is the user's pick, and
    \* the interval was changed since that pick
    userPicked, changedSincePick,
    \* OrderPaymentForm (src/Incident-Report-v2.tsx:610-647): the form values,
    \* the issues reported by the validation pass of the last handler (empty
    \* when it ran no pass), formState.isSubmitted, the remainingBalance memo
    paymentValues, paymentIssues, paymentIsSubmitted, remainingBalance,
    \* OpticalLabOrderForm (src/Prescription_Fees_Settings.tsx:221-244)
    labValues, labIssues, labIsSubmitted,
    \* IncidentReportForm (src/Incident-Report-v2.tsx:135-194)
    incidentValues, incidentIssues, incidentIsSubmitted,
    \* LeaveAcceptanceForm (src/Staff_Availability.tsx:345-412): the form, the
    \* errors of the last validate(), submitting, and the call of the onSubmit
    \* prop made by the last handler
    acceptForm, acceptErrors, acceptSubmitting, acceptOnSubmit,
    \* PatientDemographicsForm (src/unnamed/part_002:733-775): the wizard
    \* step, the form values, formState.errors (the names of the fields in
    \* error), touchedFields, isSubmitted, and the call of the onSubmit prop
    \* made by the last handler
    patientStep, patientValues, patientErrors, patientTouched,
    patientIsSubmitted, patientOnSubmit,
    \* AttendanceLogTable (src/Attendance_Log_v2.tsx:48-53); shopToggled is
    \* history: the last handler was toggleApplyShopTimes
    nextId, rows, applyShopTimes, selected, shopToggled,
    \* OptometryAppraisalForm (src/unnamed/part_002:120-161): data, errors,
    \* the item stored under STORAGE_KEY, the message alert() showed in the
    \* last handler; appraisalTouched is history: the optional fields the
    \* user has edited since the draft was created; draftRestored is history:
    \* the data were read from the stored draft by a mount
    appraisalData, appraisalErrors, localStorage, appraisalAlert,
    appraisalTouched, draftRestored,
    \* OrdersTableView (src/Orders_View_V2.tsx:178-232): the orders, the
    \* status filter of the filters form, the selection and the bulk status
    orders, page, statusFilter, selectedOrders, bulkStatus,
    \* what the last handler wrote with console.log
    consoleLog

\* step 3 and 4 of the wizard, and the submission in flight
leaveDraft == <<notes, files, agree>>

leaveAsync == <<submitting, leaveProps, pendingPayload, inFlight>>

leaveVars == <<step, leaveType, startDate, endDate, halfStart, halfEnd, error,
               businessDays, totalDays, leaveDraft, leaveAsync, leaveAlert>>

followUpVars == <<followUp, followUpIntervalValue, followUpIntervalUnit,
                  showProvisional, provisionalFollowUpDate, today, alertData,
                  userPicked, changedSincePick>>

paymentVars == <<paymentValues, paymentIssues, paymentIsSubmitted,
                 remainingBalance>>

labVars == <<labValues, labIssues, labIsSubmitted>>

incidentVars == <<incidentValues, incidentIssues, incidentIsSubmitted>>

acceptVars == <<acceptForm, acceptErrors, acceptSubmitting, acceptOnSubmit>>

patientVars == <<patientStep, patientValues, patientErrors, patientTouched,
                 patientIsSubmitted, patientOnSubmit>>

attendanceVars == <<nextId, rows, applyShopTimes, selected, shopToggled>>

appraisalVars == <<appraisalData, appraisalErrors, localStorage,
                   appraisalAlert, appraisalTouched, draftRestored>>

ordersVars == <<orders, page, statusFilter, selectedOrders, bulkStatus>>

\* the two components added last
lastVars == <<appraisalVars, ordersVars>>

\* the components added to the module after the four above
moreVars == <<incidentVars, acceptVars, patientVars, attendanceVars, lastVars>>

vars == <<mounted, leaveVars, followUpVars, paymentVars, labVars, moreVars,
          consoleLog>>

\* what the handlers of one component leave alone: the other components
otherThanLeave == <<mounted, followUpVars, paymentVars, labVars, moreVars>>

otherThanFollowUp == <<mounted, leaveVars, paymentVars, labVars, moreVars,
                       consoleLog>>

otherThanPayment == <<mounted, leaveVars, followUpVars, labVars, moreVars>>

otherThanLab == <<mounted, leaveVars, followUpVars, paymentVars, moreVars>>

\* the first four components and the console, which the others leave alone
firstVars == <<leaveVars, followUpVars, paymentVars, labVars>>

otherThanIncident == <<mounted, firstVars, acceptVars, patientVars,
                       attendanceVars, lastVars>>

otherThanAccept == <<mounted, firstVars, incidentVars, patientVars,
                     attendanceVars, lastVars, consoleLog>>

otherThanPatient == <<mounted, firstVars, incidentVars, acceptVars,
                      attendanceVars, lastVars>>

otherThanAttendance == <<mounted, firstVars, incidentVars, acceptVars,
                         patientVars, lastVars, consoleLog>>

otherThanAppraisal == <<mounted, firstVars, incidentVars, acceptVars,
                        patientVars, attendanceVars, ordersVars>>

otherThanOrders == <<mounted, firstVars, incidentVars, acceptVars,
                     patientVars, attendanceVars, appraisalVars, consoleLog>>

-----------------------------------------------------------------------------
(* Bounds                                                                  *)

\* number of calendar days of Calendar offered by the date inputs
NumDays == 8

\* largest interval amount typed into the follow-up form
MaxInterval == 3

\* longest free text typed into a text input
MaxLen == 1

\* number of staff of STAFF whose checkbox the user clicks
NumStaff == 2

-----------------------------------------------------------------------------
(* JavaScript Date                                                         *)

Null == -1

EmptyDate == [y |-> 0, m |-> 0, d |-> 0]

\* consoleLog after a handler that wrote nothing
NoLog == [logged |-> FALSE]

\* new Date(y, m - 1, d, 12, 0, 0, 0): days since 1970-01-01 of a civil date
\* (proleptic Gregorian calendar, m in 1..12; d may overflow the month).
DaysFromCivil(y, m, d) ==
    LET yy  == IF m <= 2 THEN y - 1 ELSE y
        era == yy \div 400
        yoe == yy - era * 400
        mp  == IF m > 2 THEN m - 3 ELSE m + 9
        doy == (153 * mp + 2) \div 5 + d - 1
        doe == yoe * 365 + yoe \div 4 - yoe \div 100 + doy
    IN  era * 146097 + doe - 719468

\* getFullYear / getMonth (+1) / getDate of a Date
CivilFromDays(n) ==
    LET z   == n + 719468
        era == z \div 146097
        doe == z - era * 146097
        yoe == (doe - doe \div 1460 + doe \div 36524 - doe \div 146096) \div 365
        doy == doe - (365 * yoe + yoe \div 4 - yoe \div 100)
        mp  == (5 * doy + 2) \div 153
        dd  == doy - (153 * mp + 2) \div 5 + 1
        mm  == IF mp < 10 THEN mp + 3 ELSE mp - 9
        yy  == yoe + era * 400 + (IF mm <= 2 THEN 1 ELSE 0)
    IN  [y |-> yy, m |-> mm, d |-> dd]

\* date.getDay(): 0 = Sunday .. 6 = Saturday (1970-01-01 was a Thursday)
getDay(date) == (date + 4) % 7

\* the Date after date.setDate(n): day n of date's month, n may overflow
setDate(date, n) ==
    LET c == CivilFromDays(date) IN DaysFromCivil(c.y, c.m, 1) + n - 1

getDate(date) == CivilFromDays(date).d

-----------------------------------------------------------------------------
(* JavaScript numbers and text                                             *)

DigitChars == <<"0", "1", "2", "3", "4", "5", "6", "7", "8", "9">>

IsDigit(c) == \E i \in 1..Len(DigitChars) : DigitChars[i] = c

DigitVal(c) == (CHOOSE i \in 1..Len(DigitChars) : DigitChars[i] = c) - 1

RECURSIVE ParseDigits(_, _, _)
\* the run of decimal digits of s from position i: its value and where it ends
ParseDigits(s, i, acc) ==
    IF i > Len(s) \/ ~IsDigit(s[i])
    THEN [n |-> acc, next |-> i]
    ELSE ParseDigits(s, i + 1, acc * 10 + DigitVal(s[i]))

NaN == [nan |-> TRUE, n |-> 0]

Num(k) == [nan |-> FALSE, n |-> k]

\* parseInt(s): optional sign, then the leading digits; NaN without a digit
parseInt(s) ==
    LET neg  == Len(s) >= 1 /\ s[1] = "-"
        from == IF neg THEN 2 ELSE 1
        r    == ParseDigits(s, from, 0)
    IN  IF r.next = from THEN NaN ELSE Num(IF neg THEN 0 - r.n ELSE r.n)

\* the text a number input holds after typing the integer k (0 <= |k| <= 99)
NumText(k) ==
    LET a  == IF k < 0 THEN 0 - k ELSE k
        ds == IF a >= 10 THEN <<DigitChars[(a \div 10) + 1], DigitChars[(a % 10) + 1]>>
                         ELSE <<DigitChars[a + 1]>>
    IN  IF k < 0 THEN <<"-">> \o ds ELSE ds

\* Number(s) of the text of a number input, in cents: optional sign, digits,
\* optional fraction of at most two digits (step 0.01); "" is 0; else NaN
JsNumber(s) ==
    LET neg   == Len(s) >= 1 /\ s[1] = "-"
        from  == IF neg THEN 2 ELSE 1
        ip    == ParseDigits(s, from, 0)
        dot   == ip.next <= Len(s) /\ s[ip.next] = "."
        fp    == IF dot THEN ParseDigits(s, ip.next + 1, 0)
                        ELSE [n |-> 0, next |-> ip.next]
        flen  == IF dot THEN fp.next - (ip.next + 1) ELSE 0
        cents == ip.n * 100 + (IF flen = 1 THEN fp.n * 10 ELSE fp.n)
    IN  IF s = <<>> THEN Num(0)
        ELSE IF ip.next = from \/ fp.next <= Len(s) \/ flen > 2
                \/ (dot /\ flen = 0)
        THEN NaN
        ELSE Num(IF neg THEN 0 - cents ELSE cents)

Chars == {" ", "a"}

\* the free texts of the model: every text over Chars of at most MaxLen characters
Texts == UNION {[1..k -> Chars] : k \in 0..MaxLen}

IsSpace(c) == c = " "

RECURSIVE trimStart(_)
trimStart(s) ==
    IF s # <<>> /\ IsSpace(Head(s)) THEN trimStart(Tail(s)) ELSE s

RECURSIVE trimEnd(_)
trimEnd(s) ==
    IF s # <<>> /\ IsSpace(s[Len(s)])
    THEN trimEnd(SubSeq(s, 1, Len(s) - 1))
    ELSE s

\* s.trim()
trim(s) == trimEnd(trimStart(s))

Undefined == "undefined"

Issue(path, message) == [path |-> path, message |-> message]

-----------------------------------------------------------------------------
(* Leave request: duration                                                 *)

isWeekendSundayOnly(date) == getDay(date) = 0

isWeekend(date) ==
    LET day == getDay(date) IN day = 0 \/ day = 6

parseISODate(val) ==
    IF val = EmptyDate THEN Null ELSE DaysFromCivil(val.y, val.m, val.d)

RECURSIVE CountFrom(_, _, _)
\* the while loop of diffBusinessDaysInclusive
CountFrom(cursor, endD, count) ==
    IF cursor <= endD
    THEN CountFrom(setDate(cursor, getDate(cursor) + 1), endD,
                   IF ~isWeekend(cursor) THEN count + 1 ELSE count)
    ELSE count

diffBusinessDaysInclusive(startD, endD) ==
    IF startD = Null \/ endD = Null THEN 0
    ELSE IF endD < startD THEN 0
    ELSE CountFrom(startD, endD, 0)

\* totalDays without the end-boundary test startDate !== endDate
ComputeTotalDaysNoSameDayTest(bd, hs, he, sd, ed) ==
    LET d0 == 2 * bd
        d1 == IF hs THEN d0 - 1 ELSE d0
        d2 == IF he THEN d1 - 1 ELSE d1
    IN  IF d0 = 0 THEN 0 ELSE IF d2 < 0 THEN 0 ELSE d2

\* totalDays without the early return for 0 and without the clamp
ComputeTotalDaysUnguarded(bd, hs, he, sd, ed) ==
    LET d0 == 2 * bd
        d1 == IF hs THEN d0 - 1 ELSE d0
    IN  IF he /\ sd # ed THEN d1 - 1 ELSE d1

\* the totalDays memo, in half-days
ComputeTotalDays(bd, hs, he, sd, ed) ==
    LET d0 == 2 * bd
        d1 == IF hs THEN d0 - 1 ELSE d0
        d2 == IF he /\ sd # ed THEN d1 - 1 ELSE d1
    IN  IF d0 = 0 THEN 0 ELSE IF d2 < 0 THEN 0 ELSE d2


-----------------------------------------------------------------------------
(* Leave request wizard (LeaveRequestInitiation)                           *)

\* the days the date inputs of the model offer: Sunday 2025-01-26 onwards
Calendar ==
    << [y |-> 2025, m |-> 1, d |-> 26], [y |-> 2025, m |-> 1, d |-> 27],
       [y |-> 2025, m |-> 1, d |-> 28], [y |-> 2025, m |-> 1, d |-> 29],
       [y |-> 2025, m |-> 1, d |-> 30], [y |-> 2025, m |-> 1, d |-> 31],
       [y |-> 2025, m |-> 2, d |-> 1],  [y |-> 2025, m |-> 2, d |-> 2],
       [y |-> 2025, m |-> 2, d |-> 3],  [y |-> 2025, m |-> 2, d |-> 4],
       [y |-> 2025, m |-> 2, d |-> 5],  [y |-> 2025, m |-> 2, d |-> 6] >>

\* values of an <input type="date">: a day, or "" after clearing
DateInputs == {Calendar[i] : i \in 1..NumDays} \cup {EmptyDate}

LEAVE_TYPES == {"vacation", "sick", "training", "unpaid"}

\* the options the user picks among: no handler tells one type from another
LeaveTypeInputs == {t \in LEAVE_TYPES : t \in {"vacation", "sick"}}

start == parseISODate(startDate)

end == parseISODate(endDate)

basicValid ==
    /\ leaveType # ""
    /\ start # Null /\ end # Null
    /\ ~(end < start)
    /\ ~(businessDays <= 0)

canReview == basicValid

\* the memos recomputed by the render that follows a state update
LeaveRender ==
    /\ businessDays' = diffBusinessDaysInclusive(parseISODate(startDate'),
                                                 parseISODate(endDate'))
    /\ totalDays' = ComputeTotalDays(businessDays', halfStart', halfEnd',
                                     startDate', endDate')

\* the props of the usages: none, or an onSubmit and the employee's name
LeaveProps ==
    { [onSubmit |-> FALSE, employeeName |-> ""],
      [onSubmit |-> TRUE, employeeName |-> "Sam Moyo"] }

NoSubmission == [pending |-> FALSE]

MaxFileSize == 10 * 1024 * 1024

\* what the textarea and the file input of step 3 offer
NoteInputs == {"", "Family event"}

FileInputs ==
    { << [name |-> "note.pdf", size |-> 2048, type |-> "application/pdf"] >>,
      << [name |-> "scan.tiff", size |-> MaxFileSize + 1,
          type |-> "image/tiff"],
         [name |-> "note.pdf", size |-> 2048, type |-> "application/pdf"] >>,
      << [name |-> "scan.tiff", size |-> MaxFileSize + 1,
          type |-> "image/tiff"] >> }

InitLeaveFields ==
    /\ step = 1
    /\ leaveType = ""
    /\ startDate = EmptyDate
    /\ endDate = EmptyDate
    /\ halfStart = FALSE
    /\ halfEnd = FALSE
    /\ error = ""
    /\ businessDays = 0
    /\ totalDays = 0
    /\ notes = ""
    /\ files = <<>>
    /\ agree = FALSE
    /\ submitting = FALSE
    /\ leaveProps \in IF mounted = "leave" THEN LeaveProps
                      ELSE {[onSubmit |-> FALSE, employeeName |-> ""]}
    /\ pendingPayload = NoSubmission
    /\ inFlight = 0
    /\ leaveAlert = ""

setLeaveType(t) ==
    /\ mounted = "leave" /\ step = 1
    /\ leaveType' = t
    /\ UNCHANGED otherThanLeave
    /\ UNCHANGED <<leaveDraft, leaveAsync>>
    /\ leaveAlert' = "" /\ consoleLog' = NoLog
    /\ UNCHANGED <<step, startDate, endDate, halfStart, halfEnd, error>>
    /\ LeaveRender

setStartDate(v) ==
    /\ mounted = "leave" /\ step = 2
    /\ startDate' = v
    /\ UNCHANGED otherThanLeave
    /\ UNCHANGED <<leaveDraft, leaveAsync>>
    /\ leaveAlert' = "" /\ consoleLog' = NoLog
    /\ UNCHANGED <<step, leaveType, endDate, halfStart, halfEnd, error>>
    /\ LeaveRender

setEndDate(v) ==
    /\ mounted = "leave" /\ step = 2
    /\ endDate' = v
    /\ UNCHANGED otherThanLeave
    /\ UNCHANGED <<leaveDraft, leaveAsync>>
    /\ leaveAlert' = "" /\ consoleLog' = NoLog
    /\ UNCHANGED <<step, leaveType, startDate, halfStart, halfEnd, error>>
    /\ LeaveRender

setHalfStart ==
    /\ mounted = "leave" /\ step = 2
    /\ halfStart' = ~halfStart
    /\ UNCHANGED otherThanLeave
    /\ UNCHANGED <<leaveDraft, leaveAsync>>
    /\ leaveAlert' = "" /\ consoleLog' = NoLog
    /\ UNCHANGED <<step, leaveType, startDate, endDate, halfEnd, error>>
    /\ LeaveRender

setHalfEnd ==
    /\ mounted = "leave" /\ step = 2
    /\ halfEnd' = ~halfEnd
    /\ UNCHANGED otherThanLeave
    /\ UNCHANGED <<leaveDraft, leaveAsync>>
    /\ leaveAlert' = "" /\ consoleLog' = NoLog
    /\ UNCHANGED <<step, leaveType, startDate, endDate, halfStart, error>>
    /\ LeaveRender

\* handleNext without the date test of step 2
handleNextNoDateTest ==
    /\ mounted = "leave" /\ step < 4
    /\ IF step = 1 /\ leaveType = ""
       THEN error' = "Please select a leave type." /\ step' = step
       ELSE /\ error' = ""
            /\ step' = IF step + 1 > 4 THEN 4 ELSE step + 1
    /\ UNCHANGED otherThanLeave
    /\ UNCHANGED <<leaveDraft, leaveAsync>>
    /\ leaveAlert' = "" /\ consoleLog' = NoLog
    /\ UNCHANGED <<leaveType, startDate, endDate, halfStart, halfEnd>>
    /\ LeaveRender

handleNext ==
    /\ mounted = "leave" /\ step < 4
    /\ IF step = 1 /\ leaveType = ""
       THEN error' = "Please select a leave type." /\ step' = step
       ELSE IF step = 2 /\ ~basicValid
       THEN /\ error' = IF end # Null /\ start # Null /\ end < start
                        THEN "End date cannot be before start date."
                        ELSE "Please choose a valid date range that includes at least one weekday."
            /\ step' = step
       ELSE /\ error' = ""
            /\ step' = IF step + 1 > 4 THEN 4 ELSE step + 1
    /\ UNCHANGED otherThanLeave
    /\ UNCHANGED <<leaveDraft, leaveAsync>>
    /\ leaveAlert' = "" /\ consoleLog' = NoLog
    /\ UNCHANGED <<leaveType, startDate, endDate, halfStart, halfEnd>>
    /\ LeaveRender

handlePrev ==
    /\ mounted = "leave" /\ step # 1 /\ ~submitting
    /\ error' = ""
    /\ step' = IF step - 1 < 1 THEN 1 ELSE step - 1
    /\ UNCHANGED otherThanLeave
    /\ UNCHANGED <<leaveDraft, leaveAsync>>
    /\ leaveAlert' = "" /\ consoleLog' = NoLog
    /\ UNCHANGED <<leaveType, startDate, endDate, halfStart, halfEnd>>
    /\ LeaveRender


-----------------------------------------------------------------------------

\* canSubmit without the test of submitting
canSubmitWhileSubmitting == canReview /\ agree

canSubmit == canReview /\ agree /\ ~submitting

setNotes(v) ==
    /\ mounted = "leave" /\ step = 3
    /\ notes' = v
    /\ UNCHANGED otherThanLeave
    /\ UNCHANGED <<step, leaveType, startDate, endDate, halfStart, halfEnd,
                   error, files, agree, leaveAsync>>
    /\ leaveAlert' = "" /\ consoleLog' = NoLog
    /\ LeaveRender

\* `${f.name}-${f.size}`: the size is what follows the last "-", so two keys
\* are equal exactly when name and size are
FileKey(f) == <<f.name, f.size>>

\* the picked files that are neither attached already nor too large
Deduped(picked, attached) ==
    LET seen == {FileKey(attached[i]) : i \in 1..Len(attached)}
    IN  SelectSeq(picked, LAMBDA f : FileKey(f) \notin seen
                                     /\ ~(f.size > MaxFileSize))

\* the picked files that setError() is called for
TooLarge(picked, attached) ==
    LET seen == {FileKey(attached[i]) : i \in 1..Len(attached)}
    IN  SelectSeq(picked, LAMBDA f : FileKey(f) \notin seen
                                     /\ f.size > MaxFileSize)

onFilesSelected(picked) ==
    /\ mounted = "leave" /\ step = 3
    /\ LET deduped == Deduped(picked, files)
           large == TooLarge(picked, files)
       IN  /\ files' = IF Len(deduped) > 0 THEN files \o deduped ELSE files
           /\ error' = IF large = <<>> THEN error
                       ELSE "File too large: " \o large[Len(large)].name
                            \o " (max 10 MB per file)."
    /\ UNCHANGED otherThanLeave
    /\ UNCHANGED <<step, leaveType, startDate, endDate, halfStart, halfEnd,
                   notes, agree, leaveAsync>>
    /\ leaveAlert' = "" /\ consoleLog' = NoLog
    /\ LeaveRender

\* index counts from 0
removeFile(index) ==
    /\ mounted = "leave" /\ step = 3
    /\ index \in 0..(Len(files) - 1)
    /\ files' = [i \in 1..(Len(files) - 1) |->
                    IF i < index + 1 THEN files[i] ELSE files[i + 1]]
    /\ UNCHANGED otherThanLeave
    /\ UNCHANGED <<step, leaveType, startDate, endDate, halfStart, halfEnd,
                   error, notes, agree, leaveAsync>>
    /\ leaveAlert' = "" /\ consoleLog' = NoLog
    /\ LeaveRender

\* the checkbox of step 4, which stays enabled while submitting
setAgree ==
    /\ mounted = "leave" /\ step = 4
    /\ agree' = ~agree
    /\ UNCHANGED otherThanLeave
    /\ UNCHANGED <<step, leaveType, startDate, endDate, halfStart, halfEnd,
                   error, notes, files, leaveAsync>>
    /\ leaveAlert' = "" /\ consoleLog' = NoLog
    /\ LeaveRender

\* the payload of submit() and the files passed with it; submittedAt, the
\* reading of the wall clock, is left out
LeavePayload ==
    [employeeName |-> IF leaveProps.employeeName = "" THEN ""
                      ELSE leaveProps.employeeName,
     leaveType |-> leaveType, startDate |-> startDate, endDate |-> endDate,
     halfStart |-> halfStart, halfEnd |-> halfEnd, totalDays |-> totalDays,
     notes |-> notes,
     attachments |-> [i \in 1..Len(files) |->
                         [name |-> files[i].name, size |-> files[i].size,
                          type |-> files[i].type]],
     status |-> "PENDING_MANAGER_APPROVAL"]

\* submit() up to its await: the Submit button is enabled by canSubmit
submit ==
    /\ mounted = "leave" /\ step = 4 /\ canSubmit
    /\ submitting' = TRUE
    /\ error' = ""
    /\ pendingPayload' = [pending |-> TRUE, payload |-> LeavePayload,
                          files |-> files]
    /\ inFlight' = inFlight + 1
    /\ UNCHANGED otherThanLeave
    /\ UNCHANGED <<step, leaveType, startDate, endDate, halfStart, halfEnd,
                   leaveDraft, leaveProps>>
    /\ leaveAlert' = "" /\ consoleLog' = NoLog
    /\ LeaveRender

\* the rest of submit() with the reset after the await left out but for
\* the step
submitSettledStepOnly(outcome) ==
    /\ mounted = "leave" /\ submitting /\ pendingPayload.pending
    /\ outcome = "resolved" /\ leaveProps.onSubmit
    /\ step' = 1
    /\ leaveAlert' = "Leave request submitted for manager approval."
    /\ submitting' = FALSE
    /\ pendingPayload' = NoSubmission
    /\ inFlight' = inFlight - 1
    /\ consoleLog' = NoLog
    /\ UNCHANGED <<otherThanLeave, leaveProps, leaveType, startDate, endDate,
                   halfStart, halfEnd, leaveDraft, error>>
    /\ LeaveRender

\* the rest of submit() with the reset done in the catch block as well
submitSettledResetAlways(outcome) ==
    /\ mounted = "leave" /\ submitting /\ pendingPayload.pending
    /\ IF leaveProps.onSubmit THEN outcome \in {"resolved", "rejected"}
       ELSE outcome = "timeout"
    /\ consoleLog' = IF outcome = "timeout"
                     THEN [logged |-> TRUE, values |-> pendingPayload.payload]
                     ELSE NoLog
    /\ error' = IF outcome = "rejected"
                THEN "Something went wrong while submitting. Please try again."
                ELSE error
    /\ leaveAlert' = IF outcome = "rejected" THEN ""
                     ELSE "Leave request submitted for manager approval."
    /\ step' = 1 /\ leaveType' = ""
    /\ startDate' = EmptyDate /\ endDate' = EmptyDate
    /\ halfStart' = FALSE /\ halfEnd' = FALSE
    /\ notes' = "" /\ files' = <<>> /\ agree' = FALSE
    /\ submitting' = FALSE
    /\ pendingPayload' = NoSubmission
    /\ inFlight' = inFlight - 1
    /\ UNCHANGED <<mounted, followUpVars, paymentVars, labVars, moreVars,
                   leaveProps>>
    /\ LeaveRender

\* the rest of submit(): onSubmit resolved or rejected, or, without the
\* prop, the 800 ms timer fired
submitSettled(outcome) ==
    /\ mounted = "leave" /\ submitting /\ pendingPayload.pending
    /\ IF leaveProps.onSubmit THEN outcome \in {"resolved", "rejected"}
       ELSE outcome = "timeout"
    /\ consoleLog' = IF outcome = "timeout"
                     THEN [logged |-> TRUE, values |-> pendingPayload.payload]
                     ELSE NoLog
    /\ IF outcome = "rejected"
       THEN /\ error' = "Something went wrong while submitting. Please try again."
            /\ leaveAlert' = ""
            /\ UNCHANGED <<step, leaveType, startDate, endDate, halfStart,
                           halfEnd, leaveDraft>>
       ELSE /\ step' = 1
            /\ leaveType' = ""
            /\ startDate' = EmptyDate
            /\ endDate' = EmptyDate
            /\ halfStart' = FALSE
            /\ halfEnd' = FALSE
            /\ notes' = ""
            /\ files' = <<>>
            /\ agree' = FALSE
            /\ leaveAlert' = "Leave request submitted for manager approval."
            /\ error' = error
    /\ submitting' = FALSE
    /\ pendingPayload' = NoSubmission
    /\ inFlight' = inFlight - 1
    /\ UNCHANGED <<mounted, followUpVars, paymentVars, labVars, moreVars,
                   leaveProps>>
    /\ LeaveRender


-----------------------------------------------------------------------------
(* Follow-up date preview (EyePrescriptionFollowUpPreview)                 *)

\* date.setMonth(m): month m (0-based, may overflow the year) of date's year,
\* same day of the month, which may overflow into the following month
setMonth(date, m) ==
    LET c == CivilFromDays(date)
    IN  DaysFromCivil(c.y + (m \div 12), (m % 12) + 1, 1) + c.d - 1

getMonth(date) == CivilFromDays(date).m - 1

\* addInterval with a week counted as one day
addIntervalWeekAsDay(date, amount, unit) ==
    LET d0 == date
        d1 == IF unit = "days" THEN setDate(d0, getDate(d0) + amount) ELSE d0
        d2 == IF unit = "weeks" THEN setDate(d1, getDate(d1) + amount) ELSE d1
        d3 == IF unit = "months" THEN setMonth(d2, getMonth(d2) + amount) ELSE d2
    IN  d3

\* const d = new Date(date) copies the reference; the setters act on the copy
addInterval(date, amount, unit) ==
    LET d0 == date
        d1 == IF unit = "days" THEN setDate(d0, getDate(d0) + amount) ELSE d0
        d2 == IF unit = "weeks" THEN setDate(d1, getDate(d1) + amount * 7) ELSE d1
        d3 == IF unit = "months" THEN setMonth(d2, getMonth(d2) + amount) ELSE d2
    IN  d3

intervalOptions == {"days", "weeks", "months"}

\* texts of the number input: empty, an integer, or a decimal
IntervalInputs ==
    {<<>>, <<"1", ".", "5">>} \cup {NumText(k) : k \in -1..MaxInterval}

\* the reference dates "now" of a session
Todays == {DaysFromCivil(2025, 1, 1), DaysFromCivil(2025, 1, 31)}

\* the days the user picks in the date picker
PickDates == {DaysFromCivil(2025, 1, 20), DaysFromCivil(2025, 3, 3)}

NoAlert == [open |-> FALSE]

computedProvisionalDateOf(intervalValue, intervalUnit, show, now) ==
    LET value == parseInt(intervalValue)
    IN  IF show /\ ~value.nan /\ value.n # 0 /\ intervalUnit # ""
        THEN addInterval(now, value.n, intervalUnit)
        ELSE Null

computedProvisionalDate ==
    computedProvisionalDateOf(followUpIntervalValue, followUpIntervalUnit,
                              showProvisional, today)

\* the effect without its test that no date is stored yet
SyncProvisionalAlways(show, computed, stored) ==
    IF show /\ computed # Null THEN computed ELSE stored

\* the effect that copies the computed date into the form value
SyncProvisional(show, computed, stored) ==
    IF show /\ computed # Null /\ stored = Null THEN computed ELSE stored

\* the render and the effect that follow a state update, given the date the
\* handler stored
FollowUpEffect(stored) ==
    provisionalFollowUpDate' =
        SyncProvisional(showProvisional',
                        computedProvisionalDateOf(followUpIntervalValue',
                                                  followUpIntervalUnit',
                                                  showProvisional', today'),
                        stored)

InitFollowUpFields ==
    /\ followUp = FALSE
    /\ followUpIntervalValue = <<>>
    /\ followUpIntervalUnit = ""
    /\ showProvisional = FALSE
    /\ provisionalFollowUpDate = Null
    /\ alertData = NoAlert
    /\ userPicked = FALSE
    /\ changedSincePick = FALSE

FollowUpReady == mounted = "followUp" /\ alertData = NoAlert

toggleFollowUp ==
    /\ FollowUpReady
    /\ followUp' = ~followUp
    /\ UNCHANGED otherThanFollowUp
    /\ UNCHANGED <<followUpIntervalValue, followUpIntervalUnit, showProvisional,
                   today, alertData, userPicked, changedSincePick>>
    /\ FollowUpEffect(provisionalFollowUpDate)

setIntervalValue(v) ==
    /\ FollowUpReady /\ followUp
    /\ v # followUpIntervalValue
    /\ followUpIntervalValue' = v
    /\ changedSincePick' = userPicked
    /\ UNCHANGED otherThanFollowUp
    /\ UNCHANGED <<followUp, followUpIntervalUnit, showProvisional, today,
                   alertData, userPicked>>
    /\ FollowUpEffect(provisionalFollowUpDate)

setIntervalUnit(u) ==
    /\ FollowUpReady /\ followUp
    /\ u # followUpIntervalUnit
    /\ followUpIntervalUnit' = u
    /\ changedSincePick' = userPicked
    /\ UNCHANGED otherThanFollowUp
    /\ UNCHANGED <<followUp, followUpIntervalValue, showProvisional, today,
                   alertData, userPicked>>
    /\ FollowUpEffect(provisionalFollowUpDate)

toggleShowProvisional ==
    /\ FollowUpReady /\ followUp
    /\ followUpIntervalValue # <<>> /\ followUpIntervalUnit # ""
    /\ showProvisional' = ~showProvisional
    /\ UNCHANGED otherThanFollowUp
    /\ UNCHANGED <<followUp, followUpIntervalValue, followUpIntervalUnit, today,
                   alertData, userPicked, changedSincePick>>
    /\ FollowUpEffect(provisionalFollowUpDate)

\* DatePicker onChange: a chosen day, or null when the user clears the input
pickDate(date) ==
    /\ FollowUpReady /\ followUp /\ showProvisional
    /\ userPicked' = (date # Null)
    /\ changedSincePick' = FALSE
    /\ UNCHANGED otherThanFollowUp
    /\ UNCHANGED <<followUp, followUpIntervalValue, followUpIntervalUnit,
                   showProvisional, today, alertData>>
    /\ FollowUpEffect(date)

\* handleSubmit(onSubmit): alert(JSON.stringify(data)) shows the form values
submitFollowUp ==
    /\ FollowUpReady
    /\ alertData' = [open |-> TRUE,
                     followUp |-> followUp,
                     followUpIntervalValue |-> followUpIntervalValue,
                     followUpIntervalUnit |-> followUpIntervalUnit,
                     provisionalFollowUpDate |-> provisionalFollowUpDate]
    /\ UNCHANGED otherThanFollowUp
    /\ UNCHANGED <<followUp, followUpIntervalValue, followUpIntervalUnit,
                   showProvisional, provisionalFollowUpDate, today, userPicked,
                   changedSincePick>>

\* the user closes the alert, which blocks the page while it is open
dismissAlert ==
    /\ mounted = "followUp" /\ alertData # NoAlert
    /\ alertData' = NoAlert
    /\ UNCHANGED otherThanFollowUp
    /\ UNCHANGED <<followUp, followUpIntervalValue, followUpIntervalUnit,
                   showProvisional, provisionalFollowUpDate, today, userPicked,
                   changedSincePick>>

-----------------------------------------------------------------------------
(* Order payment form (OrderPaymentForm); money is in cents                *)

paymentMethods == {"Cash", "Card", "Bank Transfer", "Other"}

mockStaffOptions == {"staff-1", "staff-2", "staff-3"}

\* the texts typed into the amount input, each with the amount it denotes
AmountTable ==
    << [text |-> <<>>,                             cents |-> 0],
       [text |-> <<"0">>,                          cents |-> 0],
       [text |-> <<"-", "1">>,                     cents |-> -100],
       [text |-> <<"0", ".", "0", "1">>,           cents |-> 1],
       [text |-> <<"1", "4", "9", ".", "9", "9">>, cents |-> 14999],
       [text |-> <<"1", "5", "0">>,                cents |-> 15000],
       [text |-> <<"1", "5", "0", ".", "0", "1">>, cents |-> 15001],
       [text |-> <<"2", "0", "0">>,                cents |-> 20000] >>

AmountInputs == {AmountTable[i].text : i \in 1..Len(AmountTable)}

\* values of the payment date input: cleared, or a day
PaymentDateInputs == {"", "2025-01-10"}

mockInitialValues ==
    [orderId |-> "ORD-12345", customerName |-> "Jane Doe",
     orderDate |-> "2025-01-10",
     frameSubtotal |-> 12000, lensesSubtotal |-> 8000, repairsSubtotal |-> 0,
     totalOrderAmount |-> 20000, paymentsMadeToDate |-> 5000,
     balance |-> 15000]

paymentDefaultValues ==
    [orderId |-> mockInitialValues.orderId,
     customerName |-> mockInitialValues.customerName,
     orderDate |-> mockInitialValues.orderDate,
     frameSubtotal |-> mockInitialValues.frameSubtotal,
     lensesSubtotal |-> mockInitialValues.lensesSubtotal,
     repairsSubtotal |-> mockInitialValues.repairsSubtotal,
     totalOrderAmount |-> mockInitialValues.totalOrderAmount,
     paymentsMadeToDate |-> mockInitialValues.paymentsMadeToDate,
     balance |-> mockInitialValues.balance,
     amountPaidToday |-> <<"0">>,
     paymentMethod |-> Undefined,
     paymentMethodOther |-> <<>>,
     paymentReferenceNumber |-> <<>>,
     processedBy |-> "",
     paymentDate |-> "2025-01-10"]

\* the object schema with an amount of 0 accepted
paymentFieldIssuesZeroAllowed(v) ==
    LET amount == JsNumber(v.amountPaidToday)
    IN  (IF amount.nan
         THEN <<Issue("amountPaidToday", "Enter an amount")>>
         ELSE IF ~(amount.n >= 0)
         THEN <<Issue("amountPaidToday", "Amount must be greater than 0")>>
         ELSE <<>>)
        \o (IF v.paymentMethod \notin paymentMethods
            THEN <<Issue("paymentMethod", "Payment method is required")>>
            ELSE <<>>)
        \o (IF v.processedBy = ""
            THEN <<Issue("processedBy", "Processed By is required")>>
            ELSE <<>>)
        \o (IF v.paymentDate = ""
            THEN <<Issue("paymentDate", "Payment date is required")>>
            ELSE <<>>)

\* the issues of the object schema, field by field in declaration order
paymentFieldIssues(v) ==
    LET amount == JsNumber(v.amountPaidToday)
    IN  (IF amount.nan
         THEN <<Issue("amountPaidToday", "Enter an amount")>>
         ELSE IF ~(amount.n > 0)
         THEN <<Issue("amountPaidToday", "Amount must be greater than 0")>>
         ELSE <<>>)
        \o (IF v.paymentMethod \notin paymentMethods
            THEN <<Issue("paymentMethod", "Payment method is required")>>
            ELSE <<>>)
        \o (IF v.processedBy = ""
            THEN <<Issue("processedBy", "Processed By is required")>>
            ELSE <<>>)
        \o (IF v.paymentDate = ""
            THEN <<Issue("paymentDate", "Payment date is required")>>
            ELSE <<>>)

\* a field of the wrong type (a NaN amount, no payment method) makes the object
\* schema invalid, and zod then does not run the refinement
paymentAborted(v) ==
    JsNumber(v.amountPaidToday).nan \/ v.paymentMethod \notin paymentMethods

\* superRefine with the "Other" test not looking at the payment method
paymentSuperRefineNoGoverning(v) ==
    LET amount == JsNumber(v.amountPaidToday).n
    IN  (IF amount > v.balance
         THEN <<Issue("amountPaidToday", "Amount cannot exceed balance")>>
         ELSE <<>>)
        \o (IF trim(v.paymentMethodOther) = <<>>
            THEN <<Issue("paymentMethodOther",
                         "Please specify the other payment method")>>
            ELSE <<>>)
        \o (IF /\ v.paymentMethod \in {"Card", "Bank Transfer"}
               /\ (v.paymentReferenceNumber = <<>>
                   \/ trim(v.paymentReferenceNumber) = <<>>)
            THEN <<Issue("paymentReferenceNumber",
                         "Payment reference is required for this method")>>
            ELSE <<>>)

\* superRefine with the dependent texts tested without trim()
paymentSuperRefineNoTrim(v) ==
    LET amount == JsNumber(v.amountPaidToday).n
    IN  (IF amount > v.balance
         THEN <<Issue("amountPaidToday", "Amount cannot exceed balance")>>
         ELSE <<>>)
        \o (IF v.paymentMethod = "Other" /\ v.paymentMethodOther = <<>>
            THEN <<Issue("paymentMethodOther",
                         "Please specify the other payment method")>>
            ELSE <<>>)
        \o (IF /\ v.paymentMethod \in {"Card", "Bank Transfer"}
               /\ v.paymentReferenceNumber = <<>>
            THEN <<Issue("paymentReferenceNumber",
                         "Payment reference is required for this method")>>
            ELSE <<>>)

\* paymentFormSchema.superRefine, on the parsed data (the amount is a number)
paymentSuperRefine(v) ==
    LET amount == JsNumber(v.amountPaidToday).n
    IN  (IF amount > v.balance
         THEN <<Issue("amountPaidToday", "Amount cannot exceed balance")>>
         ELSE <<>>)
        \o (IF /\ v.paymentMethod = "Other"
               /\ (v.paymentMethodOther = <<>>
                   \/ trim(v.paymentMethodOther) = <<>>)
            THEN <<Issue("paymentMethodOther",
                         "Please specify the other payment method")>>
            ELSE <<>>)
        \o (IF /\ v.paymentMethod \in {"Card", "Bank Transfer"}
               /\ (v.paymentReferenceNumber = <<>>
                   \/ trim(v.paymentReferenceNumber) = <<>>)
            THEN <<Issue("paymentReferenceNumber",
                         "Payment reference is required for this method")>>
            ELSE <<>>)

\* zodResolver(paymentFormSchema) on the form values: the issues of one pass
paymentValidate(v) ==
    IF paymentAborted(v)
    THEN paymentFieldIssues(v)
    ELSE paymentFieldIssues(v) \o paymentSuperRefine(v)

\* the remainingBalance memo without Math.max
remainingBalanceOfNoClamp(balance, amountPaidToday) ==
    LET a == JsNumber(amountPaidToday)
    IN  balance - (IF a.nan THEN 0 ELSE a.n)

\* the remainingBalance memo
remainingBalanceOf(balance, amountPaidToday) ==
    LET a          == JsNumber(amountPaidToday)
        safeAmount == IF a.nan THEN 0 ELSE a.n
        result     == balance - safeAmount
    IN  IF result > 0 THEN result ELSE 0

InitPaymentFields ==
    /\ paymentValues = paymentDefaultValues
    /\ paymentIssues = <<>>
    /\ paymentIsSubmitted = FALSE
    /\ remainingBalance = remainingBalanceOf(paymentDefaultValues.balance,
                                             paymentDefaultValues.amountPaidToday)

\* field.onChange of a payment field: the new values, the validation pass
\* that a change runs once the form was submitted (none before, in mode
\* onBlur), and the render
paymentChange(v) ==
    /\ mounted = "payment"
    /\ paymentValues' = v
    /\ paymentIssues' = IF paymentIsSubmitted THEN paymentValidate(v) ELSE <<>>
    /\ remainingBalance' = remainingBalanceOf(v.balance, v.amountPaidToday)
    /\ consoleLog' = NoLog
    /\ UNCHANGED paymentIsSubmitted
    /\ UNCHANGED otherThanPayment

setAmountPaidToday(text) ==
    paymentChange([paymentValues EXCEPT !.amountPaidToday = text])

setPaymentMethod(method) ==
    paymentChange([paymentValues EXCEPT !.paymentMethod = method])

setPaymentMethodOther(text) ==
    /\ paymentValues.paymentMethod = "Other"
    /\ paymentChange([paymentValues EXCEPT !.paymentMethodOther = text])

setPaymentReferenceNumber(text) ==
    /\ paymentValues.paymentMethod \in {"Card", "Bank Transfer"}
    /\ paymentChange([paymentValues EXCEPT !.paymentReferenceNumber = text])

setProcessedBy(staff) ==
    paymentChange([paymentValues EXCEPT !.processedBy = staff])

setPaymentDate(date) ==
    paymentChange([paymentValues EXCEPT !.paymentDate = date])

\* field.onBlur of an input (mode "onBlur"): a validation pass until the
\* first submit; afterwards passes run on change
paymentBlur ==
    /\ mounted = "payment" /\ ~paymentIsSubmitted
    /\ paymentIssues' = paymentValidate(paymentValues)
    /\ consoleLog' = NoLog
    /\ UNCHANGED <<paymentValues, paymentIsSubmitted, remainingBalance>>
    /\ UNCHANGED otherThanPayment

\* form.handleSubmit(onSubmit): a validation pass, then onSubmit with the
\* parsed values when there is no issue
submitPayment ==
    /\ mounted = "payment"
    /\ paymentIssues' = paymentValidate(paymentValues)
    /\ paymentIsSubmitted' = TRUE
    /\ consoleLog' =
          IF paymentIssues' = <<>>
          THEN [logged |-> TRUE,
                values |-> [paymentValues EXCEPT
                    !.amountPaidToday = JsNumber(paymentValues.amountPaidToday).n]]
          ELSE NoLog
    /\ UNCHANGED <<paymentValues, remainingBalance>>
    /\ UNCHANGED otherThanPayment

\* form.reset()
resetPayment ==
    /\ mounted = "payment"
    /\ paymentValues' = paymentDefaultValues
    /\ paymentIssues' = <<>>
    /\ paymentIsSubmitted' = FALSE
    /\ remainingBalance' = remainingBalanceOf(paymentDefaultValues.balance,
                                              paymentDefaultValues.amountPaidToday)
    /\ consoleLog' = NoLog
    /\ UNCHANGED otherThanPayment

-----------------------------------------------------------------------------
(* Optical lab order form (OpticalLabOrderForm)                            *)

lensSupplyOptions == {"Left & Right Lenses", "Left Lens Only", "Right Lens Only"}

lensTreatmentOptions == {"Uncuts", "Edge & Fit", "Other"}

frameOptions == {"To Come", "Enclosed", "Lens Only", "Lab Supply", "Call", "Other"}

\* the texts typed into Other Instructions, a field no rule reads
InstructionInputs == {<<>>, <<"a">>}

labDefaultValues ==
    [lensSupply |-> "Left & Right Lenses",
     lensTreatment |-> "Uncuts",
     lensTreatmentOther |-> <<>>,
     frame |-> "Lens Only",
     frameOther |-> <<>>,
     otherInstructions |-> <<>>]

labFieldIssues(v) ==
    (IF v.lensSupply \notin lensSupplyOptions
     THEN <<Issue("lensSupply", "Lens supply is required")>> ELSE <<>>)
    \o (IF v.lensTreatment \notin lensTreatmentOptions
        THEN <<Issue("lensTreatment", "Lens treatment is required")>> ELSE <<>>)
    \o (IF v.frame \notin frameOptions
        THEN <<Issue("frame", "Frame is required")>> ELSE <<>>)

labAborted(v) ==
    \/ v.lensSupply \notin lensSupplyOptions
    \/ v.lensTreatment \notin lensTreatmentOptions
    \/ v.frame \notin frameOptions

\* formSchema.superRefine of the lab order
labSuperRefine(v) ==
    (IF v.lensTreatment = "Other" /\ trim(v.lensTreatmentOther) = <<>>
     THEN <<Issue("lensTreatmentOther", "Please specify the lens treatment")>>
     ELSE <<>>)
    \o (IF v.frame = "Other" /\ trim(v.frameOther) = <<>>
        THEN <<Issue("frameOther", "Please specify the frame option")>>
        ELSE <<>>)

labValidate(v) ==
    IF labAborted(v) THEN labFieldIssues(v)
    ELSE labFieldIssues(v) \o labSuperRefine(v)

InitLabFields ==
    /\ labValues = labDefaultValues
    /\ labIssues = <<>>
    /\ labIsSubmitted = FALSE

\* field.onChange of a lab order field (validation mode onSubmit: a pass runs
\* on change only once the form was submitted)
labChange(v) ==
    /\ mounted = "labOrder"
    /\ labValues' = v
    /\ labIssues' = IF labIsSubmitted THEN labValidate(v) ELSE <<>>
    /\ consoleLog' = NoLog
    /\ UNCHANGED labIsSubmitted
    /\ UNCHANGED otherThanLab

setLensSupply(x) == labChange([labValues EXCEPT !.lensSupply = x])

setLensTreatment(x) == labChange([labValues EXCEPT !.lensTreatment = x])

setLensTreatmentOther(text) ==
    /\ labValues.lensTreatment = "Other"
    /\ labChange([labValues EXCEPT !.lensTreatmentOther = text])

setFrame(x) == labChange([labValues EXCEPT !.frame = x])

setFrameOther(text) ==
    /\ labValues.frame = "Other"
    /\ labChange([labValues EXCEPT !.frameOther = text])

setOtherInstructions(text) ==
    labChange([labValues EXCEPT !.otherInstructions = text])

submitLabOrder ==
    /\ mounted = "labOrder"
    /\ labIssues' = labValidate(labValues)
    /\ labIsSubmitted' = TRUE
    /\ consoleLog' = IF labIssues' = <<>>
                     THEN [logged |-> TRUE, values |-> labValues]
                     ELSE NoLog
    /\ UNCHANGED labValues
    /\ UNCHANGED otherThanLab

\* handleReset: form.reset()
handleReset ==
    /\ mounted = "labOrder"
    /\ labValues' = labDefaultValues
    /\ labIssues' = <<>>
    /\ labIsSubmitted' = FALSE
    /\ consoleLog' = NoLog
    /\ UNCHANGED otherThanLab

-----------------------------------------------------------------------------
(* Incident report form (IncidentReportForm)                               *)

\* the answers of a Yes/No select, "" being its "Select" option
YesNoOptions == {"", "Yes", "No"}

\* the texts typed into the three detail inputs
DetailInputs == {<<>>, <<" ">>, <<" ", "a">>}

\* The optional fields that no rule reads (roles, phones, emails, incident
\* type, witnesses, immediate actions, reporting details, attachments) stay
\* at their default values, and the form keeps its one person involved.
incidentDefaultValues ==
    [dateOfIncident |-> "", timeOfIncident |-> "", location |-> <<>>,
     reportedByFirstName |-> <<>>, reportedByLastName |-> <<>>,
     reportedByRole |-> <<>>, contactPhone |-> <<>>, contactEmail |-> <<>>,
     persons |-> << [firstName |-> <<>>, lastName |-> <<>>, role |-> "",
                     personPhone |-> <<>>, personEmail |-> <<>>] >>,
     incidentType |-> "", incidentDescription |-> <<>>,
     wasInjured |-> "", injuryDescription |-> <<>>,
     firstAid |-> "", medicalTreatment |-> "", treatedBy |-> <<>>,
     witnesses |-> <<>>, immediateActions |-> <<>>,
     reportedTo |-> <<>>, dateReported |-> "", actionsPlanned |-> <<>>,
     followUp |-> "", followUpBy |-> <<>>]

\* the required fields from the top of the form to the bottom, each with the
\* value a user gives it
incidentRequiredInputs ==
    << [name |-> "dateOfIncident",      value |-> "2025-01-10"],
       [name |-> "timeOfIncident",      value |-> "09:30"],
       [name |-> "location",            value |-> <<"a">>],
       [name |-> "reportedByFirstName", value |-> <<"a">>],
       [name |-> "reportedByLastName",  value |-> <<"a">>],
       [name |-> "persons.0.firstName", value |-> <<"a">>],
       [name |-> "persons.0.lastName",  value |-> <<"a">>],
       [name |-> "incidentDescription", value |-> <<"a">>] >>

\* the issues of the object schema, field by field in declaration order
\* (z.string().min(1) on each required field, personSchema on each person)
incidentFieldIssues(v) ==
    LET Min1(empty, path, message) ==
            IF empty THEN <<Issue(path, message)>> ELSE <<>>
        RECURSIVE PersonIssues(_)
        PersonIssues(i) ==
            IF i > Len(v.persons) THEN <<>>
            ELSE Min1(Len(v.persons[i].firstName) < 1,
                      "persons." \o ToString(i - 1) \o ".firstName",
                      "First name is required")
                 \o Min1(Len(v.persons[i].lastName) < 1,
                         "persons." \o ToString(i - 1) \o ".lastName",
                         "Last name is required")
                 \o PersonIssues(i + 1)
    IN  Min1(v.dateOfIncident = "", "dateOfIncident", "Date is required")
        \o Min1(v.timeOfIncident = "", "timeOfIncident", "Time is required")
        \o Min1(Len(v.location) < 1, "location", "Location is required")
        \o Min1(Len(v.reportedByFirstName) < 1, "reportedByFirstName",
                "First name is required")
        \o Min1(Len(v.reportedByLastName) < 1, "reportedByLastName",
                "Last name is required")
        \o Min1(Len(v.persons) < 1, "persons", "Add at least one person")
        \o PersonIssues(1)
        \o Min1(Len(v.incidentDescription) < 1, "incidentDescription",
                "Please describe the incident")

\* the three refinements with a detail counted as given when it is not empty
incidentRefineNoTrim(v) ==
    (IF v.wasInjured = "Yes" /\ ~(v.injuryDescription # <<>>)
     THEN <<Issue("injuryDescription", "Describe the injury")>> ELSE <<>>)
    \o (IF (v.firstAid = "Yes" \/ v.medicalTreatment = "Yes")
           /\ ~(v.treatedBy # <<>>)
        THEN <<Issue("treatedBy", "Specify who provided care")>> ELSE <<>>)
    \o (IF v.followUp = "Yes" /\ ~(v.followUpBy # <<>>)
        THEN <<Issue("followUpBy", "Add follow-up owner/date")>> ELSE <<>>)

\* the three .refine() of formSchema, in the order they are chained
incidentRefine(v) ==
    (IF v.wasInjured = "Yes"
        /\ ~(v.injuryDescription # <<>> /\ Len(trim(v.injuryDescription)) > 0)
     THEN <<Issue("injuryDescription", "Describe the injury")>> ELSE <<>>)
    \o (IF (v.firstAid = "Yes" \/ v.medicalTreatment = "Yes")
           /\ ~(v.treatedBy # <<>> /\ Len(trim(v.treatedBy)) > 0)
        THEN <<Issue("treatedBy", "Specify who provided care")>> ELSE <<>>)
    \o (IF v.followUp = "Yes"
           /\ ~(v.followUpBy # <<>> /\ Len(trim(v.followUpBy)) > 0)
        THEN <<Issue("followUpBy", "Add follow-up owner/date")>> ELSE <<>>)

\* zodResolver(formSchema): every field of the form holds a string, so no
\* field is of the wrong type and the refinements run in every pass, after
\* the checks of the fields
incidentValidate(v) == incidentFieldIssues(v) \o incidentRefine(v)

InitIncidentFields ==
    /\ incidentValues = incidentDefaultValues
    /\ incidentIssues = <<>>
    /\ incidentIsSubmitted = FALSE

\* register(name).onChange: the new value, and the validation pass that a
\* change runs once the form was submitted (mode onSubmit).  A detail input
\* is rendered only while its question is answered "Yes".
incidentChange(name, x) ==
    LET v == incidentValues
        rendered ==
            CASE name = "injuryDescription" -> v.wasInjured = "Yes"
              [] name = "treatedBy" ->
                     v.firstAid = "Yes" \/ v.medicalTreatment = "Yes"
              [] name = "followUpBy" -> v.followUp = "Yes"
              [] OTHER -> TRUE
        changed ==
            CASE name = "persons.0.firstName" ->
                     [v EXCEPT !.persons[1].firstName = x]
              [] name = "persons.0.lastName" ->
                     [v EXCEPT !.persons[1].lastName = x]
              [] OTHER -> [v EXCEPT ![name] = x]
    IN  /\ mounted = "incident" /\ rendered
        /\ incidentValues' = changed
        /\ incidentIssues' = IF incidentIsSubmitted
                              THEN incidentValidate(changed) ELSE <<>>
        /\ consoleLog' = NoLog
        /\ UNCHANGED incidentIsSubmitted
        /\ UNCHANGED otherThanIncident

\* handleSubmit(onSubmit): a validation pass; without issue onSubmit logs
\* the data and calls reset()
submitIncident ==
    /\ mounted = "incident"
    /\ incidentIssues' = incidentValidate(incidentValues)
    /\ IF incidentIssues' = <<>>
       THEN /\ consoleLog' = [logged |-> TRUE, values |-> incidentValues]
            /\ incidentValues' = incidentDefaultValues
            /\ incidentIsSubmitted' = FALSE
       ELSE /\ consoleLog' = NoLog
            /\ incidentIsSubmitted' = TRUE
            /\ UNCHANGED incidentValues
    /\ UNCHANGED otherThanIncident

-----------------------------------------------------------------------------
(* Leave acceptance form (LeaveAcceptanceForm)                             *)

\* date.toISOString().slice(0, 10)
toISODate(date) ==
    LET c      == CivilFromDays(date)
        pad(n) == IF n < 10 THEN "0" \o ToString(n) ELSE ToString(n)
    IN  ToString(c.y) \o "-" \o pad(c.m) \o "-" \o pad(c.d)

\* the initialData prop: its default {}, or the request of the usage note
\* (a number is held as its text)
acceptInitialDatas ==
    { [k \in {} |-> ""],
      [requestId |-> "REQ-2025-0142", employeeName |-> "Jane Doe",
       employeeId |-> "E-1029", department |-> "Engineering",
       leaveType |-> "Annual", startDate |-> "2025-08-20",
       endDate |-> "2025-08-28", daysRequested |-> <<"7">>] }

\* useState({...}): initialData.key || fallback, field by field
acceptInitialForm(initialData, todayIso) ==
    LET Or(key, empty, fallback) ==
            IF key \in DOMAIN initialData /\ initialData[key] # empty
            THEN initialData[key] ELSE fallback
        Nullish(key, fallback) ==
            IF key \in DOMAIN initialData THEN initialData[key] ELSE fallback
    IN  [requestId |-> Or("requestId", "", ""),
         employeeName |-> Or("employeeName", "", ""),
         employeeId |-> Or("employeeId", "", ""),
         department |-> Or("department", "", ""),
         leaveType |-> Or("leaveType", "", "Annual"),
         startDate |-> Or("startDate", "", ""),
         endDate |-> Or("endDate", "", ""),
         daysRequested |-> Or("daysRequested", <<>>, <<>>),
         daysApproved |-> Or("daysApproved", <<>>,
                             Or("daysRequested", <<>>, <<>>)),
         paidLeave |-> Nullish("paidLeave", TRUE),
         approverName |-> Or("approverName", "", ""),
         approverTitle |-> Or("approverTitle", "", ""),
         approvalDate |-> Or("approvalDate", "", todayIso),
         conditions |-> Or("conditions", "", ""),
         coverPerson |-> Or("coverPerson", "", ""),
         handoverNotes |-> Or("handoverNotes", "", ""),
         notifyHR |-> Nullish("notifyHR", TRUE),
         notifyManager |-> Nullish("notifyManager", TRUE),
         acknowledgementChecked |-> FALSE,
         referenceNote |-> Or("referenceNote", "", "")]

\* validate() without its test of the acknowledgement
acceptValidateNoAck(form) ==
    LET Required(key) ==
            IF form[key] = "" THEN <<Issue(key, "Required")>> ELSE <<>>
    IN  Required("requestId") \o Required("employeeName")
        \o Required("employeeId") \o Required("department")
        \o Required("startDate") \o Required("endDate")
        \o (IF form.daysApproved = <<>> \/ JsNumber(form.daysApproved).nan
            THEN <<Issue("daysApproved", "Enter a number")>> ELSE <<>>)
        \o Required("approverName") \o Required("approvalDate")

\* validate(): the errors object e, key by key in the order they are set
acceptValidate(form) ==
    LET Required(key) ==
            IF form[key] = "" THEN <<Issue(key, "Required")>> ELSE <<>>
    IN  Required("requestId") \o Required("employeeName")
        \o Required("employeeId") \o Required("department")
        \o Required("startDate") \o Required("endDate")
        \o (IF form.daysApproved = <<>> \/ JsNumber(form.daysApproved).nan
            THEN <<Issue("daysApproved", "Enter a number")>> ELSE <<>>)
        \o Required("approverName") \o Required("approvalDate")
        \o (IF ~form.acknowledgementChecked
            THEN <<Issue("acknowledgementChecked",
                         "You must confirm acceptance")>>
            ELSE <<>>)

NoCall == [called |-> FALSE]

\* the component is mounted with one of the initialData props (with the
\* default {} while another component is the one under study)
InitAcceptFields ==
    /\ acceptForm \in {acceptInitialForm(initialData, toISODate(today)) :
                           initialData \in IF mounted = "accept"
                                           THEN acceptInitialDatas
                                           ELSE {[k \in {} |-> ""]}}
    /\ acceptErrors = <<>>
    /\ acceptSubmitting = FALSE
    /\ acceptOnSubmit = NoCall

\* update(key, value): onChange of an input of the form
acceptUpdate(key, value) ==
    /\ mounted = "accept"
    /\ acceptForm' = [acceptForm EXCEPT ![key] = value]
    /\ acceptOnSubmit' = NoCall
    /\ UNCHANGED <<acceptErrors, acceptSubmitting>>
    /\ UNCHANGED otherThanAccept

\* handleSubmit up to its await: validate(), then setSubmitting(true) and
\* the call of onSubmit(payload).  The submit button is disabled while
\* submitting.
acceptHandleSubmit ==
    /\ mounted = "accept" /\ ~acceptSubmitting
    /\ acceptErrors' = acceptValidate(acceptForm)
    /\ IF acceptErrors' # <<>>
       THEN /\ acceptOnSubmit' = NoCall
            /\ UNCHANGED acceptSubmitting
       ELSE /\ acceptSubmitting' = TRUE
            /\ acceptOnSubmit' =
                  [called |-> TRUE,
                   payload |-> [companyName |-> "",
                                type |-> "LEAVE_ACCEPTANCE",
                                status |-> "APPROVED",
                                issuedAt |-> toISODate(today),
                                form |-> acceptForm]]
    /\ UNCHANGED acceptForm
    /\ UNCHANGED otherThanAccept

\* handleSubmit after its await: the promise of onSubmit settled (resolved
\* or rejected), finally setSubmitting(false)
acceptSettled ==
    /\ mounted = "accept" /\ acceptSubmitting
    /\ acceptSubmitting' = FALSE
    /\ acceptOnSubmit' = NoCall
    /\ UNCHANGED <<acceptForm, acceptErrors>>
    /\ UNCHANGED otherThanAccept

-----------------------------------------------------------------------------
(* Patient demographics wizard (PatientDemographicsForm)                   *)

steps == <<"Personal Info", "NOK", "Address Info", "Payment">>

\* The form is mounted without initialData.  The two inputs registered with
\* a rule hold "" once mounted; a select writes its value with setValue and
\* holds undefined until then.  The fields without a rule that no other
\* field depends on stay as they are mounted.
patientDefaultValues ==
    [firstName |-> <<>>, lastName |-> <<>>,
     insurance |-> Undefined, insuranceProvider |-> Undefined,
     isPolicyHolder |-> Undefined, relationshipToMember |-> Undefined,
     preferredContactMethod |-> <<>>]

\* the fields registered with a rule, each with the step that renders it
patientRules ==
    { [name |-> "firstName", step |-> 0, message |-> "First name is required"],
      [name |-> "lastName",  step |-> 0, message |-> "Last name is required"] }

\* the built-in validation of one registered field: the input of a step
\* that is not rendered is unmounted, and an unmounted field has no error;
\* required fails on the empty value
patientFieldError(rule, values, current) ==
    rule.step = current /\ values[rule.name] = <<>>

InitPatientFields ==
    /\ patientStep = 0
    /\ patientValues = patientDefaultValues
    /\ patientErrors = {}
    /\ patientTouched = {}
    /\ patientIsSubmitted = FALSE
    /\ patientOnSubmit = NoCall

\* setStep of the three navigation handlers; the inputs with a rule are not
\* in error while unmounted, and keep the error they had
patientSetStep(n) ==
    /\ mounted = "patient"
    /\ patientStep' = n
    /\ patientOnSubmit' = NoCall /\ consoleLog' = NoLog
    /\ UNCHANGED <<patientValues, patientErrors, patientTouched,
                   patientIsSubmitted>>
    /\ UNCHANGED otherThanPatient

\* the Next button, rendered before the last step
onNext ==
    /\ patientStep < Len(steps) - 1
    /\ patientSetStep(IF patientStep + 1 < Len(steps) - 1
                      THEN patientStep + 1 ELSE Len(steps) - 1)

\* the Back button, rendered after the first step
onBack ==
    /\ patientStep > 0
    /\ patientSetStep(IF patientStep - 1 > 0 THEN patientStep - 1 ELSE 0)

\* a step button of the header
goToStep(stepIndex) == patientSetStep(stepIndex)

\* onChange (blur = FALSE) or onBlur (blur = TRUE) of an input registered
\* with a rule, in mode onTouched: before the first submit the field is
\* validated on blur and, once touched, on change; after a submit, on change
patientFieldEvent(rule, text, blur) ==
    LET values  == [patientValues EXCEPT ![rule.name] = text]
        touched == rule.name \in patientTouched
        skip    == IF ~patientIsSubmitted THEN ~(touched \/ blur) ELSE blur
        failed  == patientFieldError(rule, values, patientStep)
    IN  /\ mounted = "patient" /\ patientStep = rule.step
        /\ blur => text = patientValues[rule.name]
        /\ patientValues' = values
        /\ patientTouched' = IF blur THEN patientTouched \cup {rule.name}
                                      ELSE patientTouched
        /\ patientErrors' =
              IF skip THEN patientErrors
              ELSE IF failed THEN patientErrors \cup {rule.name}
              ELSE patientErrors \ {rule.name}
        /\ patientOnSubmit' = NoCall /\ consoleLog' = NoLog
        /\ UNCHANGED <<patientStep, patientIsSubmitted>>
        /\ UNCHANGED otherThanPatient

\* onValueChange of a select of the Payment step: setValue(name, value).
\* The policy-holder select is rendered for a medical aid, the relationship
\* select when the answer is "No".
patientSetValue(name, value) ==
    LET v       == patientValues
        medical == v.insurance \in {"Medical Aid", "Cash & Medical Aid"}
        rendered ==
            CASE name = "insurance" -> TRUE
              [] name = "isPolicyHolder" -> medical
              [] name = "relationshipToMember" ->
                     medical /\ v.isPolicyHolder = "No"
    IN  /\ mounted = "patient" /\ patientStep = 3 /\ rendered
        /\ patientValues' = [v EXCEPT ![name] = value]
        /\ patientOnSubmit' = NoCall /\ consoleLog' = NoLog
        /\ UNCHANGED <<patientStep, patientErrors, patientTouched,
                       patientIsSubmitted>>
        /\ UNCHANGED otherThanPatient

\* handleSubmit(handleFormSubmit), from the submit button of the last step:
\* the built-in validation of every registered field sets or clears its
\* error, and handleFormSubmit runs when no error is left
handleFormSubmit ==
    LET failed == {rule.name : rule \in
                      {r \in patientRules :
                          patientFieldError(r, patientValues, patientStep)}}
        formattedData == [patientValues EXCEPT !.preferredContactMethod = <<>>]
    IN  /\ mounted = "patient" /\ patientStep = Len(steps) - 1
        /\ patientErrors' = failed
        /\ patientIsSubmitted' = TRUE
        /\ IF failed = {}
           THEN /\ consoleLog' = [logged |-> TRUE, values |-> formattedData]
                /\ patientOnSubmit' = [called |-> TRUE, data |-> formattedData]
           ELSE /\ consoleLog' = NoLog
                /\ patientOnSubmit' = NoCall
        /\ UNCHANGED <<patientStep, patientValues, patientTouched>>
        /\ UNCHANGED otherThanPatient

-----------------------------------------------------------------------------
(* Attendance log (AttendanceLogTable)                                     *)

STAFF ==
    << [id |-> "s1", name |-> "Dr. Ndlovu"],
       [id |-> "s2", name |-> "Dr. Patel"],
       [id |-> "s3", name |-> "Ama - Optical Tech"],
       [id |-> "s4", name |-> "Tariro - Reception"],
       [id |-> "s5", name |-> "Kuda - Optometrist"] >>

SHOP_TIMES == [timeIn |-> "08:00", timeOut |-> "17:00", breakDur |-> "00:30"]

\* a session adds as many rows as there are staff members clicked: the row
\* ids go from 2 up to MaxRowId
MaxRowId == NumStaff + 1

\* a row without a staffId has the key absent: staffId is undefined
EmptyRow(id) ==
    [id |-> id, staffId |-> Undefined, name |-> "", timeIn |-> "",
     timeOut |-> "", breakDur |-> ""]

\* the staffRowMap memo: the id of the row linked to a staff member (the
\* last such row), 0 standing for no entry
staffRowMap(staffId) ==
    LET linked == {i \in 1..Len(rows) : rows[i].staffId = staffId}
    IN  IF linked = {} THEN 0
        ELSE rows[CHOOSE i \in linked : \A j \in linked : j <= i].id

\* r.filter((row) => row.id !== id)
RowsWithout(r, id) == LET Keep(row) == row.id # id IN SelectSeq(r, Keep)

\* applyDefaultsToAll filling only the fields that are empty
applyDefaultsToEmpty(r) ==
    [i \in 1..Len(r) |->
        [r[i] EXCEPT
            !.timeIn = IF @ = "" THEN SHOP_TIMES.timeIn ELSE @,
            !.timeOut = IF @ = "" THEN SHOP_TIMES.timeOut ELSE @,
            !.breakDur = IF @ = "" THEN SHOP_TIMES.breakDur ELSE @]]

applyDefaultsToAll(r) ==
    [i \in 1..Len(r) |->
        [r[i] EXCEPT !.timeIn = SHOP_TIMES.timeIn,
                     !.timeOut = SHOP_TIMES.timeOut,
                     !.breakDur = SHOP_TIMES.breakDur]]

\* removeDefaultsFromEmpty clearing every time
removeDefaultsFromAll(r) ==
    [i \in 1..Len(r) |->
        [r[i] EXCEPT !.timeIn = "", !.timeOut = "", !.breakDur = ""]]

removeDefaultsFromEmpty(r) ==
    [i \in 1..Len(r) |->
        [r[i] EXCEPT
            !.timeIn = IF @ = SHOP_TIMES.timeIn THEN "" ELSE @,
            !.timeOut = IF @ = SHOP_TIMES.timeOut THEN "" ELSE @,
            !.breakDur = IF @ = SHOP_TIMES.breakDur THEN "" ELSE @]]

\* selected is held as Boolean(selected[id]) for each staff id: a key that
\* is absent reads as false
InitAttendanceFields ==
    /\ nextId = 2
    /\ rows = <<EmptyRow(1)>>
    /\ applyShopTimes = FALSE
    /\ selected = [i \in 1..Len(STAFF) |-> FALSE]
    /\ shopToggled = FALSE

\* the Add Row button: addRow() without a partial
addRow ==
    /\ mounted = "attendance" /\ nextId <= MaxRowId
    /\ rows' = Append(rows, EmptyRow(nextId))
    /\ nextId' = nextId + 1
    /\ shopToggled' = FALSE
    /\ UNCHANGED <<applyShopTimes, selected>>
    /\ UNCHANGED otherThanAttendance

\* deleteRow without the unselecting of the linked staff member
deleteRowOnly(id) ==
    /\ mounted = "attendance" /\ \E i \in 1..Len(rows) : rows[i].id = id
    /\ rows' = RowsWithout(rows, id)
    /\ shopToggled' = FALSE
    /\ UNCHANGED <<nextId, applyShopTimes, selected>>
    /\ UNCHANGED otherThanAttendance

\* the delete button of a row
deleteRow(id) ==
    LET linked == {k \in 1..Len(STAFF) : staffRowMap(STAFF[k].id) = id}
    IN  /\ mounted = "attendance" /\ \E i \in 1..Len(rows) : rows[i].id = id
        /\ rows' = RowsWithout(rows, id)
        /\ selected' = IF linked = {} THEN selected
                       ELSE [selected EXCEPT
                               ![CHOOSE k \in linked : \A j \in linked : k <= j]
                                   = FALSE]
        /\ shopToggled' = FALSE
        /\ UNCHANGED <<nextId, applyShopTimes>>
        /\ UNCHANGED otherThanAttendance

clearAll ==
    /\ mounted = "attendance"
    /\ rows' = <<EmptyRow(1)>>
    /\ selected' = [i \in 1..Len(STAFF) |-> FALSE]
    /\ shopToggled' = FALSE
    /\ UNCHANGED <<nextId, applyShopTimes>>
    /\ UNCHANGED otherThanAttendance

\* onChange of an input of a row
updateRow(id, key, value) ==
    /\ mounted = "attendance" /\ \E i \in 1..Len(rows) : rows[i].id = id
    /\ rows' = [i \in 1..Len(rows) |->
                   IF rows[i].id = id THEN [rows[i] EXCEPT ![key] = value]
                   ELSE rows[i]]
    /\ shopToggled' = FALSE
    /\ UNCHANGED <<nextId, applyShopTimes, selected>>
    /\ UNCHANGED otherThanAttendance

\* onCheckedChange of the Use Shop Times checkbox
toggleApplyShopTimes(checked) ==
    /\ mounted = "attendance"
    /\ applyShopTimes' = checked
    /\ rows' = IF checked THEN applyDefaultsToAll(rows)
                         ELSE removeDefaultsFromEmpty(rows)
    /\ shopToggled' = TRUE
    /\ UNCHANGED <<nextId, selected>>
    /\ UNCHANGED otherThanAttendance

\* onCheckedChange of the checkbox of staff member STAFF[k]
onToggleStaff(k, checked) ==
    LET staff == STAFF[k]
        rowId == staffRowMap(staff.id)
    IN  /\ mounted = "attendance"
        /\ (checked /\ rowId = 0) => nextId <= MaxRowId
        /\ selected' = [selected EXCEPT ![k] = checked]
        /\ IF checked
           THEN IF rowId # 0
                THEN UNCHANGED <<rows, nextId>>
                ELSE /\ rows' = Append(rows,
                          [id |-> nextId, staffId |-> staff.id,
                           name |-> staff.name,
                           timeIn |-> IF applyShopTimes
                                      THEN SHOP_TIMES.timeIn ELSE "",
                           timeOut |-> IF applyShopTimes
                                       THEN SHOP_TIMES.timeOut ELSE "",
                           breakDur |-> IF applyShopTimes
                                        THEN SHOP_TIMES.breakDur ELSE ""])
                     /\ nextId' = nextId + 1
           ELSE /\ rows' = IF rowId # 0 THEN RowsWithout(rows, rowId) ELSE rows
                /\ UNCHANGED nextId
        /\ shopToggled' = FALSE
        /\ UNCHANGED applyShopTimes
        /\ UNCHANGED otherThanAttendance

-----------------------------------------------------------------------------
(* Appraisal form with a local draft (OptometryAppraisalForm)              *)

\* the objectives the model lets the user keep at once
MaxObjectives == 2

EMPTY_OBJECTIVE == [title |-> <<>>, milestones |-> ""]

EMPTY_DEV == [development |-> "", completionWhen |-> ""]

\* the object useState() builds when no draft is stored; the texts that
\* validate() trims are character sequences
appraisalDefaults ==
    [appraiseeName |-> <<>>,
     employeeNumber |-> "",
     roleTitle |-> "Optometrist",
     locationBranch |-> "",
     appraiserName |-> <<>>,
     objectives |-> <<EMPTY_OBJECTIVE>>,
     developmentNeeds |-> <<EMPTY_DEV>>,
     wellbeing |-> [hasDisability |-> "No", needsAdjustments |-> FALSE],
     annualChecks |->
        [registrationBody |-> "", registrationNumber |-> <<>>,
         registrationExpiry |-> "", accreditationName |-> "",
         accreditationExpiry |-> "", flexibleWorkingReview |-> "",
         conflictsOfInterestConfirmed |-> FALSE],
     customCards |-> <<>>,
     signatures |-> [colleagueSigned |-> FALSE, managerSigned |-> FALSE]]

\* the properties of AppraisalData by the type of their value; every other
\* property is a string
BooleanKeys ==
    {"needsAdjustments", "conflictsOfInterestConfirmed", "colleagueSigned",
     "managerSigned"}

ObjectKeys == {"wellbeing", "annualChecks", "signatures"}

ArrayKeys == {"objectives", "developmentNeeds", "customCards"}

\* JSON.stringify(o): no property of AppraisalData holds undefined, a
\* function or a symbol, so every own property is written
RECURSIVE JSONstringify(_)
JSONstringify(o) ==
    [t |-> "object",
     members |->
        [k \in DOMAIN o |->
            IF k \in BooleanKeys
            THEN [t |-> IF o[k] THEN "true" ELSE "false"]
            ELSE IF k \in ObjectKeys THEN JSONstringify(o[k])
            ELSE IF k \in ArrayKeys
            THEN [t |-> "array",
                  items |-> [i \in 1..Len(o[k]) |-> JSONstringify(o[k][i])]]
            ELSE [t |-> "string", chars |-> o[k]]]]

\* JSON.parse of a document
RECURSIVE JSONparse(_)
JSONparse(j) ==
    CASE j.t = "object" ->
            [k \in DOMAIN j.members |-> JSONparse(j.members[k])]
      [] j.t = "array" -> [i \in 1..Len(j.items) |-> JSONparse(j.items[i])]
      [] j.t = "string" -> j.chars
      [] j.t = "true" -> TRUE
      [] j.t = "false" -> FALSE

\* localStorage.getItem() of a key that is not stored
NoItem == [t |-> "null"]

\* the initializer of useState(): the stored draft, or the defaults
appraisalInitialData(cached) ==
    IF cached # NoItem THEN JSONparse(cached) ELSE appraisalDefaults

InitAppraisalFields ==
    /\ appraisalData = appraisalInitialData(NoItem)
    /\ appraisalErrors = <<>>
    /\ localStorage = JSONstringify(appraisalData)
    /\ appraisalAlert = ""
    /\ appraisalTouched = {}
    /\ draftRestored = FALSE

\* the properties of AppraisalData and its parts that the types mark with ?
OptionalKeys ==
    {"employeeNumber", "locationBranch", "lastObjectiveSettingDate",
     "nextReviewDate", "appraisalDate", "reviewLastYear", "practiceValuesDemo",
     "notGoneSoWell", "futureSupport", "overallCommentsColleague",
     "overallCommentsAppraiser", "discussion", "additionalSupport",
     "disabilityCategory", "adjustments", "registrationBody",
     "accreditationName", "accreditationExpiry", "flexibleWorkingReview"}

\* { ...d, [key]: value }
Spread(d, key, value) ==
    [k \in DOMAIN d \cup {key} |-> IF k = key THEN value ELSE d[k]]

\* setData() with the new object, and the effect that stores the draft
SetAppraisalData(d) ==
    /\ appraisalData' = d
    /\ localStorage' = JSONstringify(d)
    /\ appraisalAlert' = "" /\ consoleLog' = NoLog
    /\ UNCHANGED <<appraisalErrors, draftRestored, otherThanAppraisal>>

\* update(key, value) from an input of the About tab
appraisalUpdate(key, value) ==
    /\ mounted = "appraisal"
    /\ SetAppraisalData(Spread(appraisalData, key, value))
    /\ appraisalTouched' = appraisalTouched \cup ({key} \cap OptionalKeys)

updateAnnualChecks(key, value) ==
    /\ mounted = "appraisal"
    /\ SetAppraisalData(Spread(appraisalData, "annualChecks",
                               Spread(appraisalData.annualChecks, key, value)))
    /\ appraisalTouched' = appraisalTouched \cup ({key} \cap OptionalKeys)

updateWellbeing(key, value) ==
    /\ mounted = "appraisal"
    /\ SetAppraisalData(Spread(appraisalData, "wellbeing",
                               Spread(appraisalData.wellbeing, key, value)))
    /\ appraisalTouched' = appraisalTouched \cup ({key} \cap OptionalKeys)

\* the title input of objective idx (counted from 0)
setObjectiveTitle(idx, value) ==
    /\ mounted = "appraisal"
    /\ idx \in 0..(Len(appraisalData.objectives) - 1)
    /\ SetAppraisalData(Spread(appraisalData, "objectives",
          [appraisalData.objectives EXCEPT
              ![idx + 1] = Spread(appraisalData.objectives[idx + 1],
                                  "title", value)]))
    /\ UNCHANGED appraisalTouched

addObjective ==
    /\ mounted = "appraisal"
    /\ Len(appraisalData.objectives) < MaxObjectives
    /\ SetAppraisalData(Spread(appraisalData, "objectives",
          Append(appraisalData.objectives, EMPTY_OBJECTIVE)))
    /\ UNCHANGED appraisalTouched

removeObjective(idx) ==
    /\ mounted = "appraisal"
    /\ idx \in 0..(Len(appraisalData.objectives) - 1)
    /\ LET old == appraisalData.objectives
           copy == [i \in 1..(Len(old) - 1) |->
                       IF i < idx + 1 THEN old[i] ELSE old[i + 1]]
       IN  SetAppraisalData(Spread(appraisalData, "objectives",
               IF Len(copy) > 0 THEN copy ELSE <<EMPTY_OBJECTIVE>>))
    /\ UNCHANGED appraisalTouched

RECURSIVE ObjectiveErrors(_, _)
ObjectiveErrors(objectives, i) ==
    IF i > Len(objectives) THEN <<>>
    ELSE (IF trim(objectives[i].title) = <<>>
          THEN <<"Objective " \o ToString(i) \o " title is required.">>
          ELSE <<>>)
         \o ObjectiveErrors(objectives, i + 1)

\* validate() with the objectives looked at before the names
appraisalValidateObjectivesFirst(d) ==
    ObjectiveErrors(d.objectives, 1)
    \o (IF trim(d.appraiseeName) = <<>>
        THEN <<"Appraisee name is required.">> ELSE <<>>)
    \o (IF trim(d.appraiserName) = <<>>
        THEN <<"Appraiser name is required.">> ELSE <<>>)
    \o (IF trim(d.annualChecks.registrationNumber) = <<>>
        THEN <<"Registration number is required.">> ELSE <<>>)
    \o (IF d.annualChecks.registrationExpiry = ""
        THEN <<"Registration expiry date is required.">> ELSE <<>>)

\* the errs of validate()
appraisalValidate(d) ==
    (IF trim(d.appraiseeName) = <<>>
     THEN <<"Appraisee name is required.">> ELSE <<>>)
    \o (IF trim(d.appraiserName) = <<>>
        THEN <<"Appraiser name is required.">> ELSE <<>>)
    \o (IF trim(d.annualChecks.registrationNumber) = <<>>
        THEN <<"Registration number is required.">> ELSE <<>>)
    \o (IF d.annualChecks.registrationExpiry = ""
        THEN <<"Registration expiry date is required.">> ELSE <<>>)
    \o ObjectiveErrors(d.objectives, 1)

\* Save / Validate
appraisalHandleSubmit ==
    /\ mounted = "appraisal"
    /\ appraisalErrors' = appraisalValidate(appraisalData)
    /\ IF appraisalErrors' = <<>>
       THEN /\ consoleLog' = [logged |-> TRUE, values |-> appraisalData]
            /\ appraisalAlert' = "Appraisal validated. See console for payload. You can also Export JSON."
       ELSE /\ consoleLog' = NoLog
            /\ appraisalAlert' = ""
    /\ UNCHANGED <<appraisalData, localStorage, appraisalTouched,
                   draftRestored, otherThanAppraisal>>

\* the page is loaded again: the component mounts on the stored item, and
\* its effect stores the data it mounted with
appraisalReload ==
    /\ mounted = "appraisal"
    /\ appraisalData' = appraisalInitialData(localStorage)
    /\ localStorage' = JSONstringify(appraisalData')
    /\ appraisalErrors' = <<>>
    /\ draftRestored' = (localStorage # NoItem)
    /\ appraisalAlert' = "" /\ consoleLog' = NoLog
    /\ UNCHANGED <<appraisalTouched, otherThanAppraisal>>

\* Reset: after confirm(), the draft is removed and the page loaded again
appraisalHandleReset(confirmed) ==
    /\ mounted = "appraisal"
    /\ IF confirmed
       THEN /\ appraisalData' = appraisalInitialData(NoItem)
            /\ localStorage' = JSONstringify(appraisalData')
            /\ appraisalErrors' = <<>>
            /\ appraisalTouched' = {}
            /\ draftRestored' = FALSE
       ELSE UNCHANGED <<appraisalData, localStorage, appraisalErrors,
                        appraisalTouched, draftRestored>>
    /\ appraisalAlert' = "" /\ consoleLog' = NoLog
    /\ UNCHANGED otherThanAppraisal


-----------------------------------------------------------------------------
(* Orders table (OrdersTableView)                                          *)

OrderStatuses ==
    {"Order Received", "Sent to Lab", "Ready - Lab", "Uncuts - Lab",
     "Patient Notified", "Collected with Case", "Collected without Case"}

\* the fields of an Order that the table shows or changes
MOCK_ORDERS ==
    << [id |-> "ORD-1001", customer |-> "Ada Lovelace",
        status |-> "Order Received", createdAt |-> "2025-09-01T09:35:00Z"],
       [id |-> "ORD-1002", customer |-> "Grace Hopper",
        status |-> "Sent to Lab", createdAt |-> "2025-09-02T12:12:00Z"] >>

\* the initialData of the usages: none, or three orders
OrdersInitialDatas ==
    { [given |-> FALSE],
      [given |-> TRUE, orders |->
      << [id |-> "ORD-7", customer |-> "Tariro", status |-> "Ready - Lab",
          createdAt |-> "2025-10-01T08:00:00Z"],
         [id |-> "ORD-8", customer |-> "Farai", status |-> "Ready - Lab",
          createdAt |-> "2025-10-01T09:00:00Z"],
         [id |-> "ORD-9", customer |-> "Rudo", status |-> "Sent to Lab",
          createdAt |-> "2025-10-02T09:00:00Z"] >>] }

pageSize == 8

\* bulkStatus before a status is chosen (null)
NoBulkStatus == ""

\* the filtered memo; the search box and the date filter stay empty
filtered ==
    SelectSeq(orders, LAMBDA o :
        IF statusFilter # "" /\ statusFilter # "all"
        THEN o.status = statusFilter ELSE TRUE)

\* filtered.slice((page - 1) * pageSize, page * pageSize)
paginated ==
    LET from == (page - 1) * pageSize
        to == IF page * pageSize < Len(filtered) THEN page * pageSize
              ELSE Len(filtered)
    IN  SubSeq(filtered, from + 1, to)

PageIds == {paginated[i].id : i \in 1..Len(paginated)}

InitOrdersFields ==
    /\ \E initialData \in IF mounted = "orders" THEN OrdersInitialDatas
                          ELSE {[given |-> FALSE]} :
          orders = IF initialData.given THEN initialData.orders
                   ELSE MOCK_ORDERS
    /\ page = 1
    /\ statusFilter = "all"
    /\ selectedOrders = {}
    /\ bulkStatus = NoBulkStatus

\* form.setValue("status", v) of the status filter
setStatusFilter(v) ==
    /\ mounted = "orders"
    /\ statusFilter' = v
    /\ UNCHANGED <<orders, page, selectedOrders, bulkStatus, otherThanOrders>>

toggleAllOnPage(checked) ==
    /\ mounted = "orders"
    /\ selectedOrders' = IF checked THEN selectedOrders \cup PageIds
                         ELSE selectedOrders \ PageIds
    /\ UNCHANGED <<orders, page, statusFilter, bulkStatus, otherThanOrders>>

\* the checkbox of a row of the page
toggleOne(id, checked) ==
    /\ mounted = "orders" /\ id \in PageIds
    /\ selectedOrders' = IF checked THEN selectedOrders \cup {id}
                         ELSE selectedOrders \ {id}
    /\ UNCHANGED <<orders, page, statusFilter, bulkStatus, otherThanOrders>>

setBulkStatus(v) ==
    /\ mounted = "orders"
    /\ bulkStatus' = v
    /\ UNCHANGED <<orders, page, statusFilter, selectedOrders,
                   otherThanOrders>>

\* applyBulkStatus that keeps the selection
applyBulkStatusKeepsSelection ==
    /\ mounted = "orders"
    /\ bulkStatus # NoBulkStatus /\ Cardinality(selectedOrders) # 0
    /\ orders' = [i \in 1..Len(orders) |->
                     IF orders[i].id \in selectedOrders
                     THEN [orders[i] EXCEPT !.status = bulkStatus]
                     ELSE orders[i]]
    /\ UNCHANGED <<selectedOrders, page, statusFilter, bulkStatus,
                   otherThanOrders>>

applyBulkStatus ==
    /\ mounted = "orders"
    /\ IF bulkStatus = NoBulkStatus \/ Cardinality(selectedOrders) = 0
       THEN UNCHANGED <<orders, selectedOrders>>
       ELSE /\ orders' = [i \in 1..Len(orders) |->
                             IF orders[i].id \in selectedOrders
                             THEN [orders[i] EXCEPT !.status = bulkStatus]
                             ELSE orders[i]]
            /\ selectedOrders' = {}
    /\ UNCHANGED <<page, statusFilter, bulkStatus, otherThanOrders>>

\* Confirm in the delete dialog of a row of the page
handleDelete(id) ==
    /\ mounted = "orders" /\ id \in PageIds
    /\ orders' = SelectSeq(orders, LAMBDA o : o.id # id)
    /\ UNCHANGED <<page, statusFilter, selectedOrders, bulkStatus,
                   otherThanOrders>>


-----------------------------------------------------------------------------
(* Specifications: one per mounted component                               *)

\* the construction values of the components added after the first four
InitMoreFields ==
    /\ InitIncidentFields /\ InitAcceptFields /\ InitPatientFields
    /\ InitAttendanceFields
    /\ InitAppraisalFields /\ InitOrdersFields

InitLeave ==
    /\ mounted = "leave"
    /\ InitLeaveFields
    /\ InitFollowUpFields /\ today = DaysFromCivil(2025, 1, 1)
    /\ InitPaymentFields /\ InitLabFields /\ consoleLog = NoLog
    /\ InitMoreFields

NextLeave ==
    \/ \E t \in LeaveTypeInputs : setLeaveType(t)
    \/ \E v \in DateInputs : setStartDate(v)
    \/ \E v \in DateInputs : setEndDate(v)
    \/ setHalfStart
    \/ setHalfEnd
    \/ handleNext
    \/ handlePrev
    \/ \E v \in NoteInputs : setNotes(v)
    \/ \E picked \in FileInputs : onFilesSelected(picked)
    \/ \E index \in 0..(Len(files) - 1) : removeFile(index)
    \/ setAgree
    \/ submit
    \/ \E outcome \in {"resolved", "rejected", "timeout"} :
           submitSettled(outcome)

SpecLeave == InitLeave /\ [][NextLeave]_vars

InitFollowUp ==
    /\ mounted = "followUp"
    /\ today \in Todays
    /\ InitFollowUpFields
    /\ InitLeaveFields
    /\ InitPaymentFields /\ InitLabFields /\ consoleLog = NoLog
    /\ InitMoreFields

NextFollowUp ==
    \/ toggleFollowUp
    \/ \E v \in IntervalInputs : setIntervalValue(v)
    \/ \E u \in intervalOptions : setIntervalUnit(u)
    \/ toggleShowProvisional
    \/ \E date \in PickDates \cup {Null} : pickDate(date)
    \/ submitFollowUp
    \/ dismissAlert

SpecFollowUp == InitFollowUp /\ [][NextFollowUp]_vars

InitPayment ==
    /\ mounted = "payment"
    /\ InitPaymentFields /\ InitLabFields /\ consoleLog = NoLog
    /\ InitLeaveFields
    /\ InitFollowUpFields /\ today = DaysFromCivil(2025, 1, 1)
    /\ InitMoreFields

NextPayment ==
    \/ \E text \in AmountInputs : setAmountPaidToday(text)
    \/ \E method \in paymentMethods : setPaymentMethod(method)
    \/ \E text \in Texts : setPaymentMethodOther(text)
    \/ \E text \in Texts : setPaymentReferenceNumber(text)
    \/ \E staff \in mockStaffOptions : setProcessedBy(staff)
    \/ \E date \in PaymentDateInputs : setPaymentDate(date)
    \/ paymentBlur
    \/ submitPayment
    \/ resetPayment

SpecPayment == InitPayment /\ [][NextPayment]_vars

InitLabOrder ==
    /\ mounted = "labOrder"
    /\ InitPaymentFields /\ InitLabFields /\ consoleLog = NoLog
    /\ InitLeaveFields
    /\ InitFollowUpFields /\ today = DaysFromCivil(2025, 1, 1)
    /\ InitMoreFields

NextLabOrder ==
    \/ \E x \in lensSupplyOptions : setLensSupply(x)
    \/ \E x \in lensTreatmentOptions : setLensTreatment(x)
    \/ \E text \in Texts : setLensTreatmentOther(text)
    \/ \E x \in frameOptions : setFrame(x)
    \/ \E text \in Texts : setFrameOther(text)
    \/ \E text \in InstructionInputs : setOtherInstructions(text)
    \/ submitLabOrder
    \/ handleReset

\* the two forms with "Other, please specify" rules: either one is mounted
SpecForms ==
    (InitPayment \/ InitLabOrder) /\ [][NextPayment \/ NextLabOrder]_vars

InitIncident ==
    /\ mounted = "incident"
    /\ InitPaymentFields /\ InitLabFields /\ consoleLog = NoLog
    /\ InitLeaveFields
    /\ InitFollowUpFields /\ today = DaysFromCivil(2025, 1, 1)
    /\ InitMoreFields

\* The required fields are filled in from the top of the form to the bottom:
\* field i is typed into when i - 1 required fields are filled in, which
\* leaves one issue for each of the others.
NextIncident ==
    \/ \E i \in 1..Len(incidentRequiredInputs) :
          /\ Len(incidentFieldIssues(incidentValues)) =
                 Len(incidentRequiredInputs) - (i - 1)
          /\ incidentChange(incidentRequiredInputs[i].name,
                            incidentRequiredInputs[i].value)
    \/ \E name \in {"wasInjured", "firstAid", "medicalTreatment", "followUp"} :
          \E x \in YesNoOptions : incidentChange(name, x)
    \/ \E name \in {"injuryDescription", "treatedBy", "followUpBy"} :
          \E x \in DetailInputs : incidentChange(name, x)
    \/ submitIncident

SpecIncident == InitIncident /\ [][NextIncident]_vars

InitAccept ==
    /\ mounted = "accept"
    /\ InitPaymentFields /\ InitLabFields /\ consoleLog = NoLog
    /\ InitLeaveFields
    /\ InitFollowUpFields /\ today = DaysFromCivil(2025, 1, 1)
    /\ InitMoreFields

\* the required texts from the top of validate() to the bottom, each with
\* the value a user gives it
acceptRequiredInputs ==
    << [key |-> "requestId",    value |-> "REQ-2025-0001"],
       [key |-> "employeeName", value |-> "Jane Doe"],
       [key |-> "employeeId",   value |-> "E-1029"],
       [key |-> "department",   value |-> "Engineering"],
       [key |-> "startDate",    value |-> "2025-08-20"],
       [key |-> "endDate",      value |-> "2025-08-28"],
       [key |-> "approverName", value |-> "John Roe"] >>

\* The required texts are filled in from top to bottom: one is typed into
\* when it is empty and those above it are not.  The approval date is
\* cleared or set, the days approved and the acknowledgement change freely.
NextAccept ==
    \/ \E i \in 1..Len(acceptRequiredInputs) :
          /\ acceptForm[acceptRequiredInputs[i].key] = ""
          /\ \A j \in 1..(i - 1) : acceptForm[acceptRequiredInputs[j].key] # ""
          /\ acceptUpdate(acceptRequiredInputs[i].key,
                          acceptRequiredInputs[i].value)
    \/ \E value \in {"", "2025-01-02"} : acceptUpdate("approvalDate", value)
    \/ \E value \in {<<>>, <<"0">>, <<"7">>} : acceptUpdate("daysApproved", value)
    \/ \E value \in BOOLEAN : acceptUpdate("acknowledgementChecked", value)
    \/ acceptHandleSubmit
    \/ acceptSettled

SpecAccept == InitAccept /\ [][NextAccept]_vars

InitPatient ==
    /\ mounted = "patient"
    /\ InitPaymentFields /\ InitLabFields /\ consoleLog = NoLog
    /\ InitLeaveFields
    /\ InitFollowUpFields /\ today = DaysFromCivil(2025, 1, 1)
    /\ InitMoreFields

NextPatient ==
    \/ onNext
    \/ onBack
    \/ \E stepIndex \in 0..(Len(steps) - 1) : goToStep(stepIndex)
    \/ \E rule \in patientRules : \E text \in Texts :
          patientFieldEvent(rule, text, FALSE)
    \/ \E rule \in patientRules :
          patientFieldEvent(rule, patientValues[rule.name], TRUE)
    \/ \E value \in {"Cash", "Medical Aid", "Cash & Medical Aid"} :
          patientSetValue("insurance", value)
    \/ \E value \in {"Yes", "No"} : patientSetValue("isPolicyHolder", value)
    \/ \E value \in {"Spouse", "Other"} :
          patientSetValue("relationshipToMember", value)
    \/ handleFormSubmit

SpecPatient == InitPatient /\ [][NextPatient]_vars

InitAttendance ==
    /\ mounted = "attendance"
    /\ InitPaymentFields /\ InitLabFields /\ consoleLog = NoLog
    /\ InitLeaveFields
    /\ InitFollowUpFields /\ today = DaysFromCivil(2025, 1, 1)
    /\ InitMoreFields

\* what the user types into the inputs of a row: a name, and a time in
\* that is not the shop's
RowInputs == { <<"name", "Sam">>, <<"timeIn", "09:00">> }

\* a checkbox reports the opposite of what it shows
NextAttendance ==
    \/ addRow
    \/ \E i \in 1..Len(rows) : deleteRow(rows[i].id)
    \/ clearAll
    \/ \E i \in 1..Len(rows) : \E input \in RowInputs :
          updateRow(rows[i].id, input[1], input[2])
    \/ toggleApplyShopTimes(~applyShopTimes)
    \/ \E k \in 1..NumStaff : onToggleStaff(k, ~selected[k])

SpecAttendance == InitAttendance /\ [][NextAttendance]_vars

InitAppraisal ==
    /\ mounted = "appraisal"
    /\ InitPaymentFields /\ InitLabFields /\ consoleLog = NoLog
    /\ InitLeaveFields
    /\ InitFollowUpFields /\ today = DaysFromCivil(2025, 1, 1)
    /\ InitMoreFields

\* what the user types into the trimmed text inputs
AppraisalTexts == {<<>>, <<" ">>, <<"A">>}

\* the required fields from top to bottom, TRUE when blank
appraisalBlank ==
    << trim(appraisalData.appraiseeName) = <<>>,
       trim(appraisalData.appraiserName) = <<>>,
       trim(appraisalData.annualChecks.registrationNumber) = <<>>,
       appraisalData.annualChecks.registrationExpiry = "" >>

\* the required fields are filled in from top to bottom: field i is edited
\* while the fields above it are filled and the fields from it on are blank
FillsNext(i) ==
    /\ \A j \in 1..(i - 1) : ~appraisalBlank[j]
    /\ \A j \in i..Len(appraisalBlank) : appraisalBlank[j]

\* besides the required fields the user edits the objectives, two optional
\* fields of the About tab and a checkbox of the Wellbeing tab; development
\* needs, custom cards and the other optional fields stay as they are
NextAppraisal ==
    \/ \E value \in AppraisalTexts :
          FillsNext(1) /\ appraisalUpdate("appraiseeName", value)
    \/ \E value \in AppraisalTexts :
          FillsNext(2) /\ appraisalUpdate("appraiserName", value)
    \/ FillsNext(3) /\ updateAnnualChecks("registrationNumber", <<"A">>)
    \/ FillsNext(4) /\ updateAnnualChecks("registrationExpiry", "2026-01-31")
    \/ appraisalUpdate("employeeNumber", "E7")
    \/ appraisalUpdate("lastObjectiveSettingDate", "2025-03-01")
    \/ updateWellbeing("needsAdjustments",
                       ~appraisalData.wellbeing.needsAdjustments)
    \/ \E idx \in 0..(MaxObjectives - 1) : \E value \in {<<>>, <<"A">>} :
          setObjectiveTitle(idx, value)
    \/ addObjective
    \/ \E idx \in 0..(MaxObjectives - 1) : removeObjective(idx)
    \/ appraisalHandleSubmit
    \/ appraisalReload
    \/ \E confirmed \in BOOLEAN : appraisalHandleReset(confirmed)

SpecAppraisal == InitAppraisal /\ [][NextAppraisal]_vars

\* the two forms whose issues are ordered lists
SpecIssueOrder ==
    (InitPayment \/ InitAppraisal) /\ [][NextPayment \/ NextAppraisal]_vars

InitOrders ==
    /\ mounted = "orders"
    /\ InitPaymentFields /\ InitLabFields /\ consoleLog = NoLog
    /\ InitLeaveFields
    /\ InitFollowUpFields /\ today = DaysFromCivil(2025, 1, 1)
    /\ InitMoreFields

\* the statuses the user picks in the filter and in the bulk select
StatusInputs == {"Sent to Lab", "Collected with Case"}

\* a checkbox reports the opposite of what it shows
NextOrders ==
    \/ \E v \in StatusInputs \cup {"all"} : setStatusFilter(v)
    \/ toggleAllOnPage(~(Len(paginated) > 0 /\ PageIds \subseteq selectedOrders))
    \/ \E id \in PageIds : toggleOne(id, id \notin selectedOrders)
    \/ \E v \in StatusInputs : setBulkStatus(v)
    \/ applyBulkStatus
    \/ \E id \in PageIds : handleDelete(id)

SpecOrders == InitOrders /\ [][NextOrders]_vars


-----------------------------------------------------------------------------
(* Claims about the leave duration (checked under SpecLeave)               *)

\* the calendar facts the claims are stated with: Calendar[1] is a Sunday
IdxOf(v) == CHOOSE i \in 1..Len(Calendar) : Calendar[i] = v

IsWorkday(i) == (i - 1) % 7 \in 1..5

Workdays(i, j) == Cardinality({k \in i..j : IsWorkday(k)})

BothDatesSet == startDate # EmptyDate /\ endDate # EmptyDate

Monday == Calendar[2]

Friday == Calendar[6]

\* C5: the weekday span is 0 when the end date is before the start date; for
\* a single day without half-day flags it is 1 on Monday-Friday and 0 on
\* Saturday and Sunday; Monday to Friday of one week is 5 days without flags
\* and 4.5 days with halfStart alone (durations are in half-days).
C5_WeekdaySpan ==
    /\ (BothDatesSet /\ IdxOf(endDate) < IdxOf(startDate)) => totalDays = 0
    /\ (BothDatesSet /\ startDate = endDate /\ ~halfStart /\ ~halfEnd)
          => totalDays = (IF IsWorkday(IdxOf(startDate)) THEN 2 ELSE 0)
    /\ (startDate = Monday /\ endDate = Friday /\ ~halfEnd)
          => totalDays = (IF halfStart THEN 9 ELSE 10)

C5_Witness ==
    /\ startDate = Monday /\ endDate = Friday
    /\ halfStart /\ ~halfEnd /\ totalDays = 9

\* C6: a half-day flag deducts 0.5 only when its boundary day is a counted
\* weekday: with a single flag set on a boundary day that is a Saturday or a
\* Sunday, the duration is the full count of weekdays of the range.
C6_HalfDayOnlyOnWeekday ==
    (BothDatesSet /\ IdxOf(startDate) <= IdxOf(endDate)) =>
       /\ (halfStart /\ ~halfEnd /\ ~IsWorkday(IdxOf(startDate)))
             => totalDays = 2 * Workdays(IdxOf(startDate), IdxOf(endDate))
       /\ (halfEnd /\ ~halfStart /\ ~IsWorkday(IdxOf(endDate)))
             => totalDays = 2 * Workdays(IdxOf(startDate), IdxOf(endDate))

\* C7: for a single weekday (startDate = endDate) the end half-day is not
\* deducted: both flags give 0.5 day, halfEnd alone gives 1 day.
C7_SingleDayHalf ==
    (BothDatesSet /\ startDate = endDate /\ IsWorkday(IdxOf(startDate))) =>
       /\ (halfStart /\ halfEnd) => totalDays = 1
       /\ (~halfStart /\ halfEnd) => totalDays = 2

C7_Witness ==
    /\ BothDatesSet /\ startDate = endDate /\ IsWorkday(IdxOf(startDate))
    /\ halfStart /\ halfEnd /\ totalDays = 1

\* C8: the duration is never negative, it is 0 when a date is missing or the
\* end is before the start, and 0 for a range of weekend days only, whatever
\* the half-day flags are.
C8_NeverNegative ==
    /\ totalDays >= 0
    /\ ~BothDatesSet => totalDays = 0
    /\ (BothDatesSet /\ Workdays(IdxOf(startDate), IdxOf(endDate)) = 0)
          => totalDays = 0

C8_Witness ==
    /\ BothDatesSet /\ IdxOf(startDate) < IdxOf(endDate)
    /\ Workdays(IdxOf(startDate), IdxOf(endDate)) = 0
    /\ halfStart /\ halfEnd /\ totalDays = 0

-----------------------------------------------------------------------------
(* Claims about the follow-up date (checked under SpecFollowUp)            *)

\* C9: once the stored provisional follow-up date is a date the user picked,
\* no step that changes the interval amount, the interval unit, the
\* provisional-date option or the follow-up option (each re-runs the
\* calculation) changes the stored date.
C9_ManualDateKept ==
    [][(/\ userPicked
        /\ \/ followUpIntervalValue' # followUpIntervalValue
           \/ followUpIntervalUnit' # followUpIntervalUnit
           \/ showProvisional' # showProvisional
           \/ followUp' # followUp)
       => provisionalFollowUpDate' = provisionalFollowUpDate]_vars

C9_Witness ==
    /\ userPicked /\ changedSincePick /\ showProvisional
    /\ computedProvisionalDate # Null
    /\ provisionalFollowUpDate \in PickDates
    /\ provisionalFollowUpDate # computedProvisionalDate

\* C10: while the provisional date option is on and the stored date is not a
\* date the user picked, the stored provisionalFollowUpDate is the date
\* computed from the current interval amount and unit.
C10_StoredFollowsInputs ==
    (showProvisional /\ ~userPicked /\ computedProvisionalDate # Null)
       => provisionalFollowUpDate = computedProvisionalDate

\* the calendar the claim about addInterval is stated with: the day number of
\* a civil date, counted year by year and month by month from 1970-01-01
IsLeapYear(y) == (y % 4 = 0 /\ y % 100 # 0) \/ y % 400 = 0

MonthLength(y, m) ==
    IF m = 2 THEN (IF IsLeapYear(y) THEN 29 ELSE 28)
    ELSE IF m \in {4, 6, 9, 11} THEN 30 ELSE 31

RECURSIVE DaysBeforeYear(_)
DaysBeforeYear(y) ==
    IF y = 1970 THEN 0
    ELSE DaysBeforeYear(y - 1) + (IF IsLeapYear(y - 1) THEN 366 ELSE 365)

RECURSIVE DaysBeforeMonth(_, _)
DaysBeforeMonth(y, m) ==
    IF m = 1 THEN 0 ELSE DaysBeforeMonth(y, m - 1) + MonthLength(y, m - 1)

DayNumber(y, m, d) == DaysBeforeYear(y) + DaysBeforeMonth(y, m) + d - 1

\* the civil date of the session's reference date
ReferenceCivil ==
    CHOOSE c \in {[y |-> 2025, m |-> 1, d |-> 1], [y |-> 2025, m |-> 1, d |-> 31]} :
        DayNumber(c.y, c.m, c.d) = today

\* the whole number N the interval input holds (0 for the empty input)
IntervalAmount ==
    IF followUpIntervalValue = <<>> THEN 0
    ELSE IF followUpIntervalValue = <<"1", ".", "5">> THEN 1
    ELSE CHOOSE k \in -1..(MaxInterval + 1) : NumText(k) = followUpIntervalValue

\* day d of the month N months after month m of year y, a day past the end
\* of that month counting on into the following month
MonthsLater(c, N) ==
    LET total == c.y * 12 + (c.m - 1) + N
        ty    == total \div 12
        tm    == (total % 12) + 1
        next  == total + 1
    IN  IF c.d <= MonthLength(ty, tm)
        THEN DayNumber(ty, tm, c.d)
        ELSE DayNumber(next \div 12, (next % 12) + 1, c.d - MonthLength(ty, tm))

\* C11: whenever the form computes a provisional date, addInterval applied to
\* the reference date, the amount N and the unit gives the reference date
\* plus N days for days, plus 7*N days for weeks, and for months the same day
\* of the month N months later, a day that month does not have rolling over
\* into the following month; 2 weeks from 2025-01-01 is 2025-01-15.
C11_AddInterval ==
    /\ addInterval(DayNumber(2025, 1, 1), 2, "weeks") = DayNumber(2025, 1, 15)
    /\ computedProvisionalDate # Null =>
          computedProvisionalDate =
              CASE followUpIntervalUnit = "days"   -> today + IntervalAmount
                [] followUpIntervalUnit = "weeks"  -> today + 7 * IntervalAmount
                [] followUpIntervalUnit = "months" ->
                       MonthsLater(ReferenceCivil, IntervalAmount)

\* one month after 2025-01-31: 31 February rolls over to 2025-03-03
C11_Witness ==
    /\ today = DayNumber(2025, 1, 31)
    /\ followUpIntervalUnit = "months" /\ IntervalAmount = 1
    /\ computedProvisionalDate = DayNumber(2025, 3, 3)
    /\ provisionalFollowUpDate = computedProvisionalDate

-----------------------------------------------------------------------------
(* Claims about the payment and lab order forms                            *)

\* the amount a text of the amount input denotes, in cents (from AmountTable)
CentsOf(text) ==
    AmountTable[CHOOSE i \in 1..Len(AmountTable) : AmountTable[i].text = text].cents

IsBlank(text) == \A i \in 1..Len(text) : text[i] = " "

IssuesOn(issues, path) ==
    LET On(x) == x.path = path IN SelectSeq(issues, On)

IssuesNotOn(issues, paths) ==
    LET Off(x) == x.path \notin paths IN SelectSeq(issues, Off)

HasIssue(issues, path, message) ==
    \E i \in 1..Len(issues) : issues[i] = Issue(path, message)

\* a step of the payment form that runs a validation pass: a blur or a
\* submit, or a change once the form was submitted
PaymentPass ==
    /\ mounted = "payment"
    /\ \/ paymentBlur
       \/ submitPayment
       \/ paymentIsSubmitted /\ paymentIsSubmitted'

\* a step of the lab order form that runs a validation pass
LabPass ==
    /\ mounted = "labOrder"
    /\ \/ submitLabOrder
       \/ labIsSubmitted /\ labIsSubmitted'

\* C1: every validation pass of the payment form on an amount greater than
\* the balance reports the Issue "Amount cannot exceed balance" on
\* amountPaidToday, whatever the other fields hold.
C1_OverBalanceIssue ==
    [][(PaymentPass /\ CentsOf(paymentValues'.amountPaidToday) > paymentValues'.balance)
          => HasIssue(paymentIssues', "amountPaidToday",
                      "Amount cannot exceed balance")]_vars

\* C2: the displayed remaining balance is max(balance - amount, 0), a blank
\* amount counting as 0; it is never negative.
C2_RemainingBalance ==
    LET b == paymentValues.balance
        a == CentsOf(paymentValues.amountPaidToday)
    IN  /\ remainingBalance = (IF b - a > 0 THEN b - a ELSE 0)
        /\ remainingBalance >= 0

C2_Witness ==
    /\ mounted = "payment"
    /\ CentsOf(paymentValues.amountPaidToday) > paymentValues.balance
    /\ remainingBalance = 0

\* the conditional requirement of one governing/dependent pair: the issues
\* hold one on the dependent field iff the governing value is a trigger and
\* the dependent text is blank
Conditional(issues, governing, triggers, dependentPath, dependent) ==
    (IssuesOn(issues, dependentPath) # <<>>)
       <=> (governing \in triggers /\ IsBlank(dependent))

PaymentConditional ==
    /\ Conditional(paymentIssues, paymentValues.paymentMethod, {"Other"},
                   "paymentMethodOther", paymentValues.paymentMethodOther)
    /\ Conditional(paymentIssues, paymentValues.paymentMethod,
                   {"Card", "Bank Transfer"},
                   "paymentReferenceNumber", paymentValues.paymentReferenceNumber)

LabConditional ==
    /\ Conditional(labIssues, labValues.lensTreatment, {"Other"},
                   "lensTreatmentOther", labValues.lensTreatmentOther)
    /\ Conditional(labIssues, labValues.frame, {"Other"},
                   "frameOther", labValues.frameOther)

\* C3: after every validation pass of the payment form and of the lab order
\* form, an Issue is reported on a dependent field (paymentMethodOther,
\* paymentReferenceNumber, lensTreatmentOther, frameOther) if and only if its
\* governing field holds a triggering value and the dependent text is blank
\* after trimming; an unset governing field is no match.
C3_ConditionalRequirement ==
    [][(PaymentPass => PaymentConditional') /\ (LabPass => LabConditional')]_vars

C3_Witness ==
    /\ mounted = "payment" /\ paymentIsSubmitted
    /\ paymentValues.paymentMethod = "Other"
    /\ paymentValues.paymentMethodOther = <<" ">>
    /\ HasIssue(paymentIssues, "paymentMethodOther",
                "Please specify the other payment method")

\* the user fills in the specify field
FillsSpecify ==
    \E text \in Texts :
       /\ ~IsBlank(text)
       /\ paymentValues' = [paymentValues EXCEPT !.paymentMethodOther = text]

\* the user changes the payment method away from "Other"
LeavesOther ==
    \E method \in paymentMethods \ {"Other"} :
       paymentValues' = [paymentValues EXCEPT !.paymentMethod = method]

SpecifyRequired ==
    /\ paymentValues.paymentMethod = "Other"
    /\ IsBlank(paymentValues.paymentMethodOther)

\* C4: with payment method "Other" and a blank specify field, the validation
\* pass reports exactly one Issue on paymentMethodOther; when the user then
\* fills the field in or selects another method, the pass that follows (the
\* form re-validates on change once submitted) reports none on it, and the
\* Issues on the fields the payment method does not govern are the same as
\* before, in the same order.
C4_Revalidation ==
    [][(mounted = "payment" /\ paymentIsSubmitted /\ SpecifyRequired) =>
          /\ Len(IssuesOn(paymentIssues, "paymentMethodOther")) = 1
          /\ (FillsSpecify \/ LeavesOther) =>
                /\ IssuesOn(paymentIssues', "paymentMethodOther") = <<>>
                /\ IssuesNotOn(paymentIssues',
                               {"paymentMethodOther", "paymentReferenceNumber"})
                   = IssuesNotOn(paymentIssues,
                                 {"paymentMethodOther", "paymentReferenceNumber"})
                /\ FillsSpecify =>
                      IssuesNotOn(paymentIssues', {"paymentMethodOther"})
                      = IssuesNotOn(paymentIssues, {"paymentMethodOther"})]_vars

C4_Witness ==
    /\ mounted = "payment" /\ paymentIsSubmitted /\ SpecifyRequired
    /\ Len(IssuesOn(paymentIssues, "paymentMethodOther")) = 1
    /\ IssuesNotOn(paymentIssues, {"paymentMethodOther"}) # <<>>


\* C12: every validation pass of the payment form on an amount of zero or
\* less (the default 0 included) reports an Issue on amountPaidToday and
\* hands nothing to onSubmit; onSubmit only ever receives an amount greater
\* than zero.
C12_NonPositiveAmount ==
    [][/\ (PaymentPass /\ CentsOf(paymentValues'.amountPaidToday) <= 0)
            => /\ IssuesOn(paymentIssues', "amountPaidToday") # <<>>
               /\ consoleLog' = NoLog
       /\ (mounted = "payment" /\ consoleLog'.logged)
            => /\ CentsOf(paymentValues'.amountPaidToday) > 0
               /\ consoleLog'.values.amountPaidToday > 0]_vars

\* a submit on which the amount is the only thing wrong
C12_Witness ==
    /\ mounted = "payment" /\ paymentIsSubmitted
    /\ CentsOf(paymentValues.amountPaidToday) <= 0
    /\ paymentIssues =
          <<Issue("amountPaidToday", "Amount must be greater than 0")>>
    /\ consoleLog = NoLog

-----------------------------------------------------------------------------
(* Claims about the incident report form (checked under SpecIncident)      *)

\* a step of the incident form that runs a validation pass: a submit, or a
\* change once the form was submitted
IncidentPass ==
    /\ mounted = "incident"
    /\ \/ submitIncident
       \/ incidentIsSubmitted /\ incidentIsSubmitted'

\* the values the pass of the step ran on (a successful submit resets them)
IncidentValidated == IF submitIncident THEN incidentValues ELSE incidentValues'

\* C13: every validation pass of the incident form reports an Issue on
\* injuryDescription iff wasInjured is "Yes" and injuryDescription is blank;
\* on treatedBy iff firstAid or medicalTreatment is "Yes" and treatedBy is
\* blank; on followUpBy iff followUp is "Yes" and followUpBy is blank.  So a
\* pass after the answer was changed to "No" or to empty reports no such
\* Issue.
C13_IncidentConditionals ==
    [][IncidentPass =>
         LET v == IncidentValidated
             Reported(path) == IssuesOn(incidentIssues', path) # <<>>
         IN  /\ Reported("injuryDescription")
                   <=> (v.wasInjured = "Yes" /\ IsBlank(v.injuryDescription))
             /\ Reported("treatedBy")
                   <=> ((v.firstAid = "Yes" \/ v.medicalTreatment = "Yes")
                        /\ IsBlank(v.treatedBy))
             /\ Reported("followUpBy")
                   <=> (v.followUp = "Yes" /\ IsBlank(v.followUpBy))]_vars

\* a pass that reports the injury detail (spaces only) and the carer, and
\* not the follow-up owner, whose question is answered "No"
C13_Witness ==
    /\ mounted = "incident" /\ incidentIsSubmitted
    /\ incidentValues.wasInjured = "Yes"
    /\ incidentValues.injuryDescription = <<" ">>
    /\ incidentValues.firstAid = "No" /\ incidentValues.medicalTreatment = "Yes"
    /\ incidentValues.followUp = "No" /\ incidentValues.followUpBy = <<>>
    /\ incidentIssues =
          <<Issue("injuryDescription", "Describe the injury"),
            Issue("treatedBy", "Specify who provided care")>>

-----------------------------------------------------------------------------
(* Claims about the leave acceptance form (checked under SpecAccept)       *)

\* the texts of a number input that denote a number
NumericTexts == {<<"0">>, <<"7">>}

\* what the claim asks of a form for onSubmit to be called
AcceptComplete(form) ==
    /\ \A key \in {"requestId", "employeeName", "employeeId", "department",
                    "startDate", "endDate", "approverName", "approvalDate"} :
          form[key] # ""
    /\ form.daysApproved \in NumericTexts
    /\ form.acknowledgementChecked = TRUE

\* C14: onSubmit is called only from a submit whose validate() found no
\* error, with a payload that holds the form as validated, in which the
\* eight required texts are non-empty, daysApproved is a number and the
\* acknowledgement is checked; a submit of any other form calls nothing and
\* leaves submitting false.
C14_OnSubmitOnlyWhenValid ==
    [][/\ (mounted = "accept" /\ acceptOnSubmit'.called)
            => /\ acceptHandleSubmit
               /\ acceptErrors' = <<>>
               /\ acceptOnSubmit'.payload.form = acceptForm
               /\ AcceptComplete(acceptOnSubmit'.payload.form)
       /\ (acceptHandleSubmit /\ ~AcceptComplete(acceptForm))
            => /\ acceptErrors' # <<>>
               /\ ~acceptOnSubmit'.called
               /\ ~acceptSubmitting /\ ~acceptSubmitting']_vars

\* onSubmit was just called with a complete payload, after an earlier
\* submit had been refused
C14_Witness ==
    /\ mounted = "accept" /\ acceptOnSubmit.called /\ acceptSubmitting
    /\ AcceptComplete(acceptOnSubmit.payload.form)
    /\ acceptOnSubmit.payload.form.requestId = "REQ-2025-0001"

-----------------------------------------------------------------------------
(* Claims about the patient demographics wizard (checked under SpecPatient) *)

\* C15: after any sequence of Next, Back and step-button jumps, onSubmit is
\* called only with data whose firstName and lastName are non-empty.
C15_NamesRequired ==
    (mounted = "patient" /\ patientOnSubmit.called)
       => /\ patientOnSubmit.data.firstName # <<>>
          /\ patientOnSubmit.data.lastName # <<>>

\* C16: a submit of the form with isPolicyHolder "No" and no
\* relationshipToMember reports an Issue on relationshipToMember and does
\* not call onSubmit.
C16_RelationshipRequired ==
    [][(handleFormSubmit
        /\ patientValues.isPolicyHolder = "No"
        /\ patientValues.relationshipToMember = Undefined)
          => /\ "relationshipToMember" \in patientErrors'
             /\ ~patientOnSubmit'.called]_vars

-----------------------------------------------------------------------------
(* Claims about the attendance log (checked under SpecAttendance)          *)

RowsLinkedTo(staffId) == {i \in 1..Len(rows) : rows[i].staffId = staffId}

\* C17: after any sequence of staff toggles, row deletions, Add Row, row
\* edits and Clear All, a staff member is selected iff a row of the table is
\* linked to that staff member, and no two rows are linked to the same one.
C17_SelectedIffLinked ==
    mounted = "attendance" =>
       \A k \in 1..Len(STAFF) :
          /\ selected[k] <=> RowsLinkedTo(STAFF[k].id) # {}
          /\ Cardinality(RowsLinkedTo(STAFF[k].id)) <= 1

\* every row id was handed out; one staff member is selected with a row,
\* and there is a row without a staff member besides the first one
C17_Witness ==
    /\ mounted = "attendance" /\ nextId = MaxRowId + 1
    /\ selected[1] /\ ~selected[2]
    /\ \E i \in 1..Len(rows) : rows[i].staffId = "s1" /\ rows[i].id = MaxRowId
    /\ \E i \in 1..Len(rows) : rows[i].staffId = Undefined

TimeKeys == {"timeIn", "timeOut", "breakDur"}

\* the rows keep their number, order, ids, names and staff links
SameRowsButTimes ==
    /\ Len(rows') = Len(rows)
    /\ \A i \in 1..Len(rows) :
          /\ rows'[i].id = rows[i].id
          /\ rows'[i].name = rows[i].name
          /\ rows'[i].staffId = rows[i].staffId

\* C18: unchecking Use Shop Times leaves every timeIn, timeOut and breakDur
\* that differs from the shop default unchanged, clears the ones equal to
\* the shop default, and changes no name, id or staff link.
C18_UncheckKeepsEntered ==
    [][(mounted = "attendance" /\ applyShopTimes /\ ~applyShopTimes')
          => /\ SameRowsButTimes
             /\ \A i \in 1..Len(rows) : \A key \in TimeKeys :
                   rows'[i][key] = IF rows[i][key] = SHOP_TIMES[key]
                                   THEN "" ELSE rows[i][key]]_vars

\* just unchecked: a time in typed by the user is kept beside cleared times
C18_Witness ==
    /\ mounted = "attendance" /\ shopToggled /\ ~applyShopTimes
    /\ \E i \in 1..Len(rows) :
          /\ rows[i].timeIn = "09:00"
          /\ rows[i].timeOut = "" /\ rows[i].breakDur = ""
          /\ rows[i].staffId = "s1"

\* C19: checking Use Shop Times sets timeIn, timeOut and breakDur of every
\* row of the table to 08:00, 17:00 and 00:30, and changes neither the
\* number of rows nor any id, name or staff link.
C19_CheckFillsAll ==
    [][(mounted = "attendance" /\ ~applyShopTimes /\ applyShopTimes')
          => /\ SameRowsButTimes
             /\ \A i \in 1..Len(rows') :
                   /\ rows'[i].timeIn = "08:00"
                   /\ rows'[i].timeOut = "17:00"
                   /\ rows'[i].breakDur = "00:30"]_vars

\* just checked, with a named row and a staff row in the table
C19_Witness ==
    /\ mounted = "attendance" /\ shopToggled /\ applyShopTimes
    /\ Len(rows) >= 3
    /\ \E i \in 1..Len(rows) : rows[i].name = "Sam"
    /\ \E i \in 1..Len(rows) : rows[i].staffId = "s2"
    /\ \A i \in 1..Len(rows) : rows[i].timeIn = "08:00"


-----------------------------------------------------------------------------
(* C20: leave request wizard, reset after a successful submission          *)

\* C20: when the onSubmit of a submission resolves, the step that completes
\* submit() leaves the wizard in its initial state: step 1, leaveType,
\* startDate, endDate and notes empty, halfStart, halfEnd and agree false, no
\* attached files, submitting false.
C20_ResetAfterSubmit ==
    [][submitSettled("resolved") =>
          /\ step' = 1
          /\ leaveType' = "" /\ startDate' = EmptyDate /\ endDate' = EmptyDate
          /\ notes' = ""
          /\ ~halfStart' /\ ~halfEnd' /\ ~agree'
          /\ files' = <<>>
          /\ ~submitting']_vars

\* a submission with notes, a half day and a file has just resolved, and the
\* wizard shows step 1 again
C20_Witness ==
    /\ mounted = "leave" /\ leaveProps.onSubmit
    /\ leaveAlert = "Leave request submitted for manager approval."
    /\ step = 1 /\ ~submitting /\ ~pendingPayload.pending


-----------------------------------------------------------------------------
(* C23..C26: leave request wizard, steps and submission                    *)

\* C23: whenever the wizard shows step 3 or 4 the request is basically
\* valid (leave type selected, both dates set, end not before start, at
\* least one weekday in the range); Next from step 1 without a leave type,
\* or from step 2 with an invalid range, keeps the step and sets an error.
C23_LateStepsAreValid ==
    /\ [](mounted = "leave" /\ step \in {3, 4} =>
             /\ leaveType # ""
             /\ start # Null /\ end # Null /\ ~(end < start)
             /\ diffBusinessDaysInclusive(start, end) > 0)
    /\ [][handleNext /\ ((step = 1 /\ leaveType = "")
                         \/ (step = 2 /\ ~basicValid))
             => step' = step /\ error' # ""]_vars

\* the review step of a request from a Monday to a later weekday
C23_Witness ==
    /\ mounted = "leave" /\ step = 4
    /\ start # Null /\ end # Null /\ start < end
    /\ businessDays > 1

\* C24: at most one invocation of submit() is at its await at any time;
\* one starts only on step 4 with a basically valid request, agree checked
\* and submitting false; the step does not change while submitting stays
\* true.
C24_OneSubmissionInFlight ==
    /\ [](inFlight <= 1)
    /\ [][inFlight' > inFlight =>
             step = 4 /\ basicValid /\ agree /\ ~submitting]_vars
    /\ [][submitting /\ submitting' => step' = step]_vars

\* a submission is in flight and the user has touched the agree checkbox
\* meanwhile
C24_Witness ==
    /\ mounted = "leave" /\ submitting /\ inFlight = 1 /\ step = 4 /\ ~agree

\* C25: when onSubmit rejects or throws, the error message is set, the step
\* and every entered field are unchanged, and submitting is false again.
C25_FailureKeepsForm ==
    [][submitSettled("rejected") =>
          /\ error' = "Something went wrong while submitting. Please try again."
          /\ UNCHANGED <<step, leaveType, startDate, endDate, halfStart,
                         halfEnd, notes, files, agree>>
          /\ ~submitting']_vars

\* a submission with notes and a file has just failed, and the Submit
\* button is enabled again
C25_Witness ==
    /\ mounted = "leave" /\ step = 4 /\ ~submitting
    /\ error = "Something went wrong while submitting. Please try again."
    /\ notes # "" /\ files # <<>> /\ canSubmit

\* C26: the payload of every onSubmit call that is awaited has totalDays
\* above 0 (totalDays is counted in half-days).
C26_NeverZeroDays ==
    mounted = "leave" /\ leaveProps.onSubmit /\ pendingPayload.pending
        => pendingPayload.payload.totalDays > 0


-----------------------------------------------------------------------------
(* C21: order of the issues (checked under SpecIssueOrder)                 *)

\* the order the claim gives for the appraisal's errors
AppraisalRuleOrder ==
    << "Appraisee name is required.", "Appraiser name is required.",
       "Registration number is required.",
       "Registration expiry date is required." >>
    \o [i \in 1..MaxObjectives |->
           "Objective " \o ToString(i) \o " title is required."]

\* the order the claim gives for the payment form's cross-field issues
PaymentCrossOrder ==
    << Issue("amountPaidToday", "Amount cannot exceed balance"),
       Issue("paymentMethodOther", "Please specify the other payment method"),
       Issue("paymentReferenceNumber",
             "Payment reference is required for this method") >>

\* list is what is left of order when the entries not in list are removed
InOrder(list, order) ==
    list = SelectSeq(order,
                     LAMBDA x : \E i \in 1..Len(list) : list[i] = x)

\* C21: the errors of the appraisal's validate() come in the order appraisee
\* name, appraiser name, registration number, registration expiry, then the
\* objective titles by ascending index; the cross-field issues of the
\* payment form come in the order over-balance amount, other-method
\* specify, payment reference.
C21_IssueOrder ==
    /\ mounted = "appraisal" => InOrder(appraisalErrors, AppraisalRuleOrder)
    /\ mounted = "payment" =>
          InOrder(SelectSeq(paymentIssues,
                            LAMBDA x : \E i \in 1..Len(PaymentCrossOrder) :
                                          PaymentCrossOrder[i] = x),
                  PaymentCrossOrder)

\* validate() has reported a blank required field above a blank title of
\* the second objective, while the first required field is filled
C21_Witness ==
    /\ mounted = "appraisal"
    /\ Len(appraisalErrors) >= 3
    /\ appraisalErrors[1] # "Appraisee name is required."
    /\ appraisalErrors[Len(appraisalErrors)] = "Objective 2 title is required."

\* the payment form reports two cross-field issues at once
PaymentPairReported ==
    /\ mounted = "payment"
    /\ Len(SelectSeq(paymentIssues,
                     LAMBDA x : \E i \in 1..Len(PaymentCrossOrder) :
                                   PaymentCrossOrder[i] = x)) >= 2


-----------------------------------------------------------------------------
(* C22: the appraisal draft (checked under SpecAppraisal)                  *)

\* the form state the next mount builds from the stored item
NextMountData == appraisalInitialData(localStorage)

\* property key is absent from d and from its wellbeing and annualChecks
AbsentIn(d, key) ==
    /\ key \notin DOMAIN d
    /\ key \notin DOMAIN d.wellbeing
    /\ key \notin DOMAIN d.annualChecks

\* C22: the draft read back on the next mount equals the state
\* last edited field for field, and every optional field that was never
\* touched comes back absent.
C22_UntouchedComeBackAbsent ==
    mounted = "appraisal" =>
        /\ NextMountData = appraisalData
        /\ \A key \in OptionalKeys \ appraisalTouched :
              AbsentIn(NextMountData, key)

\* what does hold in every state: the draft read back on the next mount
\* equals the state last edited field for field; a field that is absent
\* from the state comes back absent and a field that holds "" comes back
\* as "", the optional fields that the default state sets to "" included
DraftRoundTrip ==
    mounted = "appraisal" =>
        /\ NextMountData = appraisalData
        /\ \A key \in OptionalKeys :
              AbsentIn(appraisalData, key) => AbsentIn(NextMountData, key)
        /\ appraisalData.employeeNumber = ""
              => NextMountData.employeeNumber = ""

\* the form was mounted on a stored draft with two objectives, a ticked
\* checkbox, an edited and an untouched optional field
DraftRestoredUntouched ==
    /\ mounted = "appraisal" /\ draftRestored
    /\ Len(appraisalData.objectives) = 2
    /\ appraisalData.wellbeing.needsAdjustments
    /\ "lastObjectiveSettingDate" \in DOMAIN appraisalData
    /\ "nextReviewDate" \notin DOMAIN appraisalData
    /\ appraisalData.employeeNumber = ""
    /\ "employeeNumber" \notin appraisalTouched


-----------------------------------------------------------------------------
(* C27, C28: the orders table (checked under SpecOrders)                   *)

OrderIds == {orders[i].id : i \in 1..Len(orders)}

\* C27: every id in the selection is the id of an order of the orders list.
C27_SelectionWithinOrders ==
    mounted = "orders" => selectedOrders \subseteq OrderIds

\* C28: Apply with a bulk status S and a non-empty selection sets the status
\* of exactly the selected orders to S, leaves every other order and every
\* other field unchanged, keeps the list's length and order and empties the
\* selection; with no bulk status or an empty selection it changes neither
\* the orders nor the selection.
C28_ApplyBulkStatus ==
    [][applyBulkStatus =>
          IF bulkStatus # NoBulkStatus /\ selectedOrders # {}
          THEN /\ Len(orders') = Len(orders)
               /\ \A i \in 1..Len(orders) :
                     /\ orders'[i].id = orders[i].id
                     /\ orders'[i].customer = orders[i].customer
                     /\ orders'[i].createdAt = orders[i].createdAt
                     /\ orders'[i].status =
                           IF orders[i].id \in selectedOrders THEN bulkStatus
                           ELSE orders[i].status
               /\ selectedOrders' = {}
          ELSE UNCHANGED <<orders, selectedOrders>>]_vars

\* Apply has set the first of several orders to a status no order started
\* with, left another order as it was, and emptied the selection
C28_Witness ==
    /\ mounted = "orders" /\ selectedOrders = {}
    /\ Len(orders) >= 2
    /\ orders[1].status = "Collected with Case"
    /\ bulkStatus = "Collected with Case"
    /\ \E i \in 2..Len(orders) :
          orders[i].status \in {"Sent to Lab", "Ready - Lab"}

====
